---- MODULE Spec2Model ----
(***************************************************************************)
(* A model of the messaging substrate of the kernel runtime:               *)
(*   - the comm manager   (crates/amalthea/src/comm/comm_manager.rs)       *)
(*   - the Shell router   (src/socket/shell.rs)                            *)
(*   - the StdIn worker   (crates/amalthea/src/socket/stdin.rs)            *)
(*   - the LSP host       (crates/ark/src/lsp/backend.rs)                  *)
(*   - the wire codec     (src/wire/wire_message.rs)                       *)
(*   - the StdIn forwarder and its notifier (crates/amalthea/src/kernel.rs)*)
(*   - Kernel::connect, the Shell thread and Control (same file)           *)
(*   - the LSP coordinator task (crates/ark/src/lsp/backend.rs)            *)
(*   - the frequency table (crates/ark/src/data_explorer/histogram.rs)     *)
(*   - the reticulate comm service (crates/ark/src/reticulate.rs)          *)
(*   - the front-end comm handler (crates/ark/src/frontend/frontend.rs)    *)
(*   - RObject and R's protect stack (amalthea/ark/src/r/object.rs)        *)
(* Channels are sequences.  A channel whose receiver is another thread of  *)
(* the program (IOPub, the shell-events listener, a comm's incoming        *)
(* channel, input_reply_tx) is modelled by the sequence of everything sent *)
(* on it so far.                                                           *)
(***************************************************************************)
EXTENDS Integers, Sequences, FiniteSets, TLC

\* ------------------------------------------------------------------------
\* Bounds
\* ------------------------------------------------------------------------
MaxCommSteps == 6
MaxOutgoing == 2
MaxShellSteps == 12
MaxStdinSteps == 8
MaxQueue == 2
MaxHandlers == 3
MaxIdentities == 1
MaxBuffers == 1
MaxForwarded == 2
MaxNotifications == 3
MaxShellRequests == 2
MaxControlRequests == 2
MaxSyncs == 4
MaxColumn == 4
MaxLimit == 2
MaxRObjects == 4
MaxFrontDelivered == 2
MaxDelivered == 3

\* ------------------------------------------------------------------------
\* Values
\* ------------------------------------------------------------------------
NoHeader == [msg_id |-> "none", session |-> "none"]

CommIds == {"c1", "c2"}

MsgIds == {"r1", "r2"}

\* JupyterHeader: two different headers may carry the same msg_id.
Headers ==
    { [msg_id |-> "r1", session |-> "sA"],
      [msg_id |-> "r1", session |-> "sB"],
      [msg_id |-> "r2", session |-> "sA"] }

\* CommSocket: chan names the socket's pair of channels (incoming, outgoing).
\* A CommSocket is Clone: the same socket can come with more than one Opened.
Chans == {1, 2}

CommSockets ==
    { [comm_id |-> "c1", comm_name |-> "variables", initiator |-> "FrontEnd", chan |-> 1],
      [comm_id |-> "c2", comm_name |-> "plot", initiator |-> "BackEnd", chan |-> 2] }

\* CommMsg
Data(v) == [kind |-> "Data", id |-> "none", data |-> v]

Rpc(id, v) == [kind |-> "Rpc", id |-> id, data |-> v]

Close == [kind |-> "Close", id |-> "none", data |-> "none"]

\* The messages the comms put on their outgoing channels.
CommMsgs == {Data("v1"), Rpc("r1", "v1"), Rpc("r2", "v2"), Close}

\* The messages the front end addresses to a comm.
FrontMsgs == {Rpc("r1", "v1")}

\* The payload of an Opened event.
OpenValues == {"v1"}

\* CommWireMsg
CommWireMsg(comm_id, data) == [comm_id |-> comm_id, data |-> data]

\* IOPubMessage
CommMsgEvent(payload) == [kind |-> "CommMsgEvent", parent |-> NoHeader, payload |-> payload]

CommMsgReply(header, payload) == [kind |-> "CommMsgReply", parent |-> header, payload |-> payload]

CommMsgRequest(payload) == [kind |-> "CommMsgRequest", parent |-> NoHeader, payload |-> payload]

CommClose(comm_id) == [kind |-> "CommClose", comm_id |-> comm_id]

CommOpen(comm_id, target_name, data) ==
    [kind |-> "CommOpen", comm_id |-> comm_id, target_name |-> target_name, data |-> data]

\* CommShellEvent
Added(comm_id, comm_name) == [kind |-> "Added", comm_id |-> comm_id, comm_name |-> comm_name]

Removed(comm_id) == [kind |-> "Removed", comm_id |-> comm_id]

\* ------------------------------------------------------------------------
\* State
\* ------------------------------------------------------------------------
VARIABLES
    open_comms,       \* CommManager.open_comms: Vec<CommSocket>
    pending_rpcs,     \* CommManager.pending_rpcs: HashMap<String, JupyterHeader>
    iopub,            \* everything sent on iopub_tx
    comm_shell,       \* everything sent on comm_shell_tx
    incoming,         \* per channel pair: everything sent on incoming_tx
    outgoing,         \* per channel pair: messages waiting on outgoing_rx
    manager,          \* "running" or "panicked" (an unwrap() on a failed send)
    dead_rx,          \* receivers that have been dropped
    n_closed,         \* per comm id: Closed events processed
    pending_log,      \* headers of the PendingRpc events processed, in order
    n_pending_new,    \* PendingRpc events processed whose msg_id was not in the table
    comm_steps        \* steps taken by the comm manager and the comms

comm_vars ==
    <<open_comms, pending_rpcs, iopub, comm_shell, incoming, outgoing, manager, dead_rx,
      n_closed, pending_log, n_pending_new, comm_steps>>

VARIABLES
    shell_pc,         \* where Shell::listen / process_message stands
    shell_msg,        \* the message being processed
    shell_result,     \* the Result that process_message is about to return
    execution_count,  \* Shell.execution_count
    state_chan,       \* everything sent on state_sender
    shell_out,        \* every reply sent on the Shell socket
    shell_reqs,       \* headers of the messages read from the Shell socket, in order
    shell_warnings,   \* warnings logged by Shell::listen for failed process_message calls
    shell_steps       \* steps taken by the Shell router

shell_vars ==
    <<shell_pc, shell_msg, shell_result, execution_count, state_chan, shell_out, shell_reqs,
      shell_warnings, shell_steps>>

VARIABLES
    stdin_pc,         \* "idle": first select of Stdin::listen; "waiting": second select
    stdin_request_rx, \* requests waiting on stdin_request_rx
    interrupt_rx,     \* number of interrupt signals waiting on interrupt_rx
    inbound_rx,       \* messages from the front end waiting on inbound_rx
    outbound,         \* everything sent on outbound_tx
    input_reply_tx,   \* everything sent on input_reply_tx
    early_interrupts, \* interrupts on the channel that were signalled before the request now waited for was taken
    stdin_steps       \* steps taken by StdIn and its peers

stdin_vars ==
    <<stdin_pc, stdin_request_rx, interrupt_rx, inbound_rx, outbound, input_reply_tx,
      early_interrupts, stdin_steps>>

VARIABLES
    handlers,         \* the LSP handlers started so far, in message order
    lock_queue,       \* Backend.lock: handlers waiting for a lease, first in line first
    lock_readers,     \* Backend.lock: handlers holding a read guard
    lock_writer,      \* Backend.lock: handlers holding the write guard
    documents,        \* Backend.documents: DashMap<Url, Document>
    store_lease,      \* the lease held by the handler that last inserted into or removed from documents
    refreshes         \* the calls of diagnostics::refresh_diagnostics so far: (uri, version)

lsp_vars ==
    <<handlers, lock_queue, lock_readers, lock_writer, documents, store_lease, refreshes>>

VARIABLES
    wire_bufs,        \* the frames read from the socket
    wire_key,         \* hmac_key
    wire_result       \* what from_buffers returned for them

wire_vars == <<wire_bufs, wire_key, wire_result>>

VARIABLES
    fwd_pc,                   \* "poll": in zmq::poll; "loop": at `while n > 0`
    fwd_n,                    \* n, what zmq::poll returned
    poll_items,               \* the items given to zmq::poll
    outbound_notif_poll_item, \* the item has_outbound tests
    stdin_poll_item,          \* the item the loop tests for inbound frames
    notif_socket,             \* notifications waiting on the notification socket
    stdin_outbound_rx,        \* messages waiting on the stdin outbound channel
    stdin_socket_rx,          \* frames of the front end waiting on the StdIn socket
    stdin_socket_tx,          \* everything written to the StdIn socket
    stdin_inbound_tx,         \* everything sent on the stdin inbound channel
    n_outbound,               \* messages put on the stdin outbound channel so far
    n_frames                  \* frames that arrived on the StdIn socket so far

fwd_vars ==
    <<fwd_pc, fwd_n, poll_items, outbound_notif_poll_item, stdin_poll_item, notif_socket,
      stdin_outbound_rx, stdin_socket_rx, stdin_socket_tx, stdin_inbound_tx, n_outbound, n_frames>>

VARIABLES
    connect_pc,        \* where Kernel::connect is: "new", the socket it creates next, "signal", "control_thread", "listening", "err", "panicked"
    sockets,           \* names of the sockets created so far
    threads,           \* names of the threads spawned so far
    conn_init_tx,      \* the conn_init_tx argument: "None", "Some", or "Disconnected" (Some, its receiver dropped)
    stream_behavior,   \* the stream_behavior argument
    conn_init_rx,      \* everything received on the connection-ready channel
    shell_worker,      \* the Shell thread: "listen" or "handler"
    shell_socket_rx,   \* requests waiting on the Shell socket
    shell_arrived,     \* requests that reached the Shell socket so far
    control_socket_rx, \* requests waiting on the Control socket
    control_arrived,   \* requests that reached the Control socket so far
    control_handled    \* per request Control handled: what the Shell thread was doing then

kernel_vars ==
    <<connect_pc, sockets, threads, conn_init_tx, stream_behavior, conn_init_rx, shell_worker,
      shell_socket_rx, shell_arrived, control_socket_rx, control_arrived, control_handled>>

VARIABLES
    coord_pc,       \* the coordinator task: "select" (in tokio::select!) or "flush" (serving an exclusive handler)
    coord_handler,  \* the exclusive HandlerSync being served
    coord_pending,  \* pending: the queued handlers, front first
    sync_rx,        \* HandlerSyncs waiting on the sync channel
    signalled,      \* every status_tx.send(()) made so far, in order
    n_registered    \* HandlerSyncs sent on sync_tx so far

coord_vars == <<coord_pc, coord_handler, coord_pending, sync_rx, signalled, n_registered>>

VARIABLES
    freq_column,    \* column: the column profile_frequency_table is called on
    freq_limit,     \* params.limit
    freq_table      \* what profile_frequency_table returned

freq_vars == <<freq_column, freq_limit, freq_table>>

VARIABLES
    ret_pc,          \* handle_messages: "recv" (in the loop), "after_loop", "done"
    ret_incoming_rx, \* messages waiting on comm.incoming_rx
    ret_outgoing_tx, \* everything sent on comm.outgoing_tx
    ret_delivered    \* messages the front end addressed to the comm so far

ret_vars == <<ret_pc, ret_incoming_rx, ret_outgoing_tx, ret_delivered>>

VARIABLES
    front_pc,          \* execution_thread of the front-end comm: "select" or "closed"
    front_incoming_rx, \* messages waiting on comm.incoming_rx
    front_outgoing_tx, \* everything sent on comm.outgoing_tx
    front_delivered    \* messages the front end addressed to the comm so far

front_vars == <<front_pc, front_incoming_rx, front_outgoing_tx, front_delivered>>

VARIABLES
    protect_stack,  \* R's protect stack: the SEXPs given to Rf_protect, the top last
    robjects,       \* the live RObjects: id and data
    n_robjects      \* RObjects created so far

robj_vars == <<protect_stack, robjects, n_robjects>>

\* The components added after the kernel.
rest_vars == <<coord_vars, freq_vars, ret_vars, front_vars, robj_vars>>

vars ==
    <<comm_vars, shell_vars, stdin_vars, lsp_vars, wire_vars, fwd_vars, kernel_vars, rest_vars>>

\* ------------------------------------------------------------------------
\* Helpers
\* ------------------------------------------------------------------------
RECURSIVE SumOver(_, _)
SumOver(f, S) ==
    IF S = {} THEN 0
    ELSE LET x == CHOOSE y \in S : TRUE IN f[x] + SumOver(f, S \ {x})

RemoveAt(seq, i) == SubSeq(seq, 1, i - 1) \o SubSeq(seq, i + 1, Len(seq))

\* Iterator::position: the first index whose socket has this comm id, 0 for None
Position(comms, comm_id) ==
    IF \E i \in 1..Len(comms) : comms[i].comm_id = comm_id
    THEN CHOOSE i \in 1..Len(comms) :
            /\ comms[i].comm_id = comm_id
            /\ \A j \in 1..(i - 1) : comms[j].comm_id # comm_id
    ELSE 0

\* HashMap::insert
MapInsert(map, key, value) ==
    [k \in DOMAIN map \cup {key} |-> IF k = key THEN value ELSE map[k]]

\* HashMap::remove mistaken for HashMap::get: the entry stays.
MapRemove_Get(map, key) == map

\* HashMap::remove: the map without the key
MapRemove(map, key) == [k \in DOMAIN map \ {key} |-> map[k]]

EmptyMap == [k \in {} |-> NoHeader]

\* ------------------------------------------------------------------------
\* Comm manager
\* ------------------------------------------------------------------------
\* The receiving ends of the channels the manager sends on.
IOPubRx == [rx |-> "iopub", chan |-> 0]

ShellRx == [rx |-> "comm_shell", chan |-> 0]

IncomingRx(chan) == [rx |-> "incoming", chan |-> chan]

CommInit ==
    /\ open_comms = <<>>
    /\ pending_rpcs = EmptyMap
    /\ iopub = <<>>
    /\ comm_shell = <<>>
    /\ incoming = [c \in Chans |-> <<>>]
    /\ outgoing = [c \in Chans |-> <<>>]
    /\ manager = "running"
    /\ dead_rx = {}
    /\ n_closed = [c \in CommIds |-> 0]
    /\ pending_log = <<>>
    /\ n_pending_new = 0
    /\ comm_steps = 0

\* Every step of the comm manager and of the comms counts against
\* MaxCommSteps; the other threads do not move.
CommStep ==
    /\ comm_steps < MaxCommSteps
    /\ comm_steps' = comm_steps + 1
    /\ UNCHANGED <<shell_vars, stdin_vars, lsp_vars, wire_vars, fwd_vars, kernel_vars, rest_vars>>

\* Opened with the front end notified whoever started the comm.
Opened_AlwaysAnnounce(comm_socket, val) ==
    /\ manager = "running"
    /\ CommStep
    /\ comm_shell' = Append(comm_shell, Added(comm_socket.comm_id, comm_socket.comm_name))
    /\ iopub' = Append(iopub, CommOpen(comm_socket.comm_id, comm_socket.comm_name, val))
    /\ open_comms' = Append(open_comms, comm_socket)
    /\ UNCHANGED <<pending_rpcs, incoming, outgoing, manager, dead_rx, n_closed, pending_log,
                   n_pending_new>>

\* CommManagerEvent::Opened(comm_socket, val)
Opened(comm_socket, val) ==
    /\ manager = "running"
    /\ CommStep
    /\ IF ShellRx \in dead_rx
       THEN /\ manager' = "panicked"
            /\ UNCHANGED <<open_comms, iopub, comm_shell>>
       ELSE /\ comm_shell' = Append(comm_shell, Added(comm_socket.comm_id, comm_socket.comm_name))
            /\ IF comm_socket.initiator = "BackEnd"
               THEN IF IOPubRx \in dead_rx
                    THEN /\ manager' = "panicked"
                         /\ UNCHANGED <<open_comms, iopub>>
                    ELSE /\ iopub' = Append(iopub,
                                CommOpen(comm_socket.comm_id, comm_socket.comm_name, val))
                         /\ open_comms' = Append(open_comms, comm_socket)
                         /\ UNCHANGED manager
               ELSE /\ open_comms' = Append(open_comms, comm_socket)
                    /\ UNCHANGED <<iopub, manager>>
    /\ UNCHANGED <<pending_rpcs, incoming, outgoing, dead_rx, n_closed, pending_log, n_pending_new>>

\* CommManagerEvent::PendingRpc(header)
PendingRpc(header) ==
    /\ manager = "running"
    /\ CommStep
    /\ pending_rpcs' = MapInsert(pending_rpcs, header.msg_id, header)
    /\ pending_log' = Append(pending_log, header)
    /\ n_pending_new' = IF header.msg_id \in DOMAIN pending_rpcs
                        THEN n_pending_new ELSE n_pending_new + 1
    /\ UNCHANGED <<open_comms, iopub, comm_shell, incoming, outgoing, manager, dead_rx, n_closed>>

\* Message with a fallback: a message for an unknown id goes to the first
\* open comm.
Message_FirstOpen(comm_id, msg) ==
    /\ manager = "running"
    /\ CommStep
    /\ LET found == Position(open_comms, comm_id)
           index == IF found # 0 THEN found ELSE IF open_comms # <<>> THEN 1 ELSE 0 IN
        IF index # 0
        THEN incoming' = [incoming EXCEPT ![open_comms[index].chan] = Append(@, msg)]
        ELSE UNCHANGED incoming
    /\ UNCHANGED <<open_comms, pending_rpcs, iopub, comm_shell, outgoing, manager, dead_rx,
                   n_closed, pending_log, n_pending_new>>

\* CommManagerEvent::Message(comm_id, msg)
Message(comm_id, msg) ==
    /\ manager = "running"
    /\ LET index == Position(open_comms, comm_id) IN
        IF index # 0
        THEN LET chan == open_comms[index].chan IN
             IF IncomingRx(chan) \in dead_rx
                THEN /\ manager' = "panicked"
                     /\ UNCHANGED incoming
                ELSE /\ incoming' = [incoming EXCEPT ![chan] = Append(@, msg)]
                     /\ UNCHANGED manager
        ELSE UNCHANGED <<incoming, manager>>
    /\ UNCHANGED <<open_comms, pending_rpcs, iopub, comm_shell, outgoing, dead_rx,
                   n_closed, pending_log, n_pending_new>>
    /\ CommStep

\* Closed as it would be with Vec::retain: every socket with this id is removed.
Closed_RetainOthers(comm_id) ==
    /\ manager = "running"
    /\ CommStep
    /\ n_closed' = [n_closed EXCEPT ![comm_id] = @ + 1]
    /\ IF Position(open_comms, comm_id) # 0
       THEN /\ open_comms' = SelectSeq(open_comms, LAMBDA s : s.comm_id # comm_id)
            /\ comm_shell' = Append(comm_shell, Removed(comm_id))
       ELSE UNCHANGED <<open_comms, comm_shell>>
    /\ UNCHANGED <<pending_rpcs, iopub, incoming, outgoing, manager, dead_rx,
                   pending_log, n_pending_new>>

\* Closed without the notification: the entry goes, the listener is not told.
Closed_Silent(comm_id) ==
    /\ manager = "running"
    /\ CommStep
    /\ n_closed' = [n_closed EXCEPT ![comm_id] = @ + 1]
    /\ LET index == Position(open_comms, comm_id) IN
        IF index # 0
        THEN open_comms' = RemoveAt(open_comms, index)
        ELSE UNCHANGED open_comms
    /\ UNCHANGED <<pending_rpcs, iopub, comm_shell, incoming, outgoing, manager, dead_rx,
                   pending_log, n_pending_new>>

\* CommManagerEvent::Closed(comm_id)
Closed(comm_id) ==
    /\ manager = "running"
    /\ n_closed' = [n_closed EXCEPT ![comm_id] = @ + 1]
    /\ LET index == Position(open_comms, comm_id) IN
        IF index # 0
        THEN /\ open_comms' = RemoveAt(open_comms, index)
             /\ IF ShellRx \in dead_rx
                THEN /\ manager' = "panicked"
                     /\ UNCHANGED comm_shell
                ELSE /\ comm_shell' = Append(comm_shell, Removed(comm_id))
                     /\ UNCHANGED manager
        ELSE UNCHANGED <<open_comms, comm_shell, manager>>
    /\ UNCHANGED <<pending_rpcs, iopub, incoming, outgoing, dead_rx, pending_log, n_pending_new>>
    /\ CommStep

\* A comm puts a message on its outgoing channel (outgoing_tx.send).
CommSend(chan, msg) ==
    /\ CommStep
    /\ SumOver([c \in Chans |-> Len(outgoing[c])], Chans) < MaxOutgoing
    /\ outgoing' = [outgoing EXCEPT ![chan] = Append(@, msg)]
    /\ UNCHANGED <<open_comms, pending_rpcs, iopub, comm_shell, incoming, manager, dead_rx,
                   n_closed, pending_log, n_pending_new>>

\* self.iopub_tx.send(msg).unwrap()
DeliverIOPub(msg) ==
    IF IOPubRx \in dead_rx
    THEN /\ manager' = "panicked"
         /\ UNCHANGED iopub
    ELSE /\ iopub' = Append(iopub, msg)
         /\ UNCHANGED manager

\* The select fired on the outgoing channel of open_comms[index].
Ready(index) ==
    /\ manager = "running"
    /\ index \in 1..Len(open_comms)
    /\ outgoing[open_comms[index].chan] # <<>>
    /\ CommStep

\* The receive taking the newest message of the channel instead of the oldest.
TakeOutgoing_Newest(index) ==
    outgoing' = [outgoing EXCEPT ![open_comms[index].chan] = SubSeq(@, 1, Len(@) - 1)]

\* oper.recv(&comm_socket.outgoing_rx)
TakeOutgoing(index) ==
    outgoing' = [outgoing EXCEPT ![open_comms[index].chan] = Tail(@)]

\* CommMsg::Data(data)
RelayData(index) ==
    /\ Ready(index)
    /\ LET comm_socket == open_comms[index]
           comm_msg == Head(outgoing[comm_socket.chan]) IN
        /\ comm_msg.kind = "Data"
        /\ TakeOutgoing(index)
        /\ DeliverIOPub(CommMsgEvent(CommWireMsg(comm_socket.comm_id, comm_msg.data)))
    /\ UNCHANGED <<open_comms, pending_rpcs, comm_shell, incoming, dead_rx,
                   n_closed, pending_log, n_pending_new>>

\* The Rpc arm without the lookup: every Rpc goes out as a request.
RelayRpc_AlwaysRequest(index) ==
    /\ Ready(index)
    /\ LET comm_socket == open_comms[index]
           comm_msg == Head(outgoing[comm_socket.chan]) IN
        /\ comm_msg.kind = "Rpc"
        /\ TakeOutgoing(index)
        /\ DeliverIOPub(CommMsgRequest(CommWireMsg(comm_socket.comm_id, comm_msg.data)))
    /\ UNCHANGED <<open_comms, pending_rpcs, comm_shell, incoming, dead_rx,
                   n_closed, pending_log, n_pending_new>>

\* The Rpc arm with the entry looked up but left in the table.
RelayRpc_KeepEntry(index) ==
    /\ Ready(index)
    /\ LET comm_socket == open_comms[index]
           comm_msg == Head(outgoing[comm_socket.chan])
           payload == CommWireMsg(comm_socket.comm_id, comm_msg.data) IN
        /\ comm_msg.kind = "Rpc"
        /\ TakeOutgoing(index)
        /\ IF comm_msg.id \in DOMAIN pending_rpcs
           THEN DeliverIOPub(CommMsgReply(pending_rpcs[comm_msg.id], payload))
           ELSE DeliverIOPub(CommMsgRequest(payload))
    /\ UNCHANGED <<open_comms, pending_rpcs, comm_shell, incoming, dead_rx,
                   n_closed, pending_log, n_pending_new>>

\* CommMsg::Rpc(string, data)
RelayRpc(index) ==
    /\ Ready(index)
    /\ LET comm_socket == open_comms[index]
           comm_msg == Head(outgoing[comm_socket.chan])
           payload == CommWireMsg(comm_socket.comm_id, comm_msg.data) IN
        /\ comm_msg.kind = "Rpc"
        /\ TakeOutgoing(index)
        /\ pending_rpcs' = MapRemove(pending_rpcs, comm_msg.id)
        /\ IF comm_msg.id \in DOMAIN pending_rpcs
           THEN DeliverIOPub(CommMsgReply(pending_rpcs[comm_msg.id], payload))
           ELSE DeliverIOPub(CommMsgRequest(payload))
    /\ UNCHANGED <<open_comms, comm_shell, incoming, dead_rx, n_closed, pending_log, n_pending_new>>

\* CommMsg::Close
RelayClose(index) ==
    /\ Ready(index)
    /\ LET comm_socket == open_comms[index]
           comm_msg == Head(outgoing[comm_socket.chan]) IN
        /\ comm_msg.kind = "Close"
        /\ TakeOutgoing(index)
        /\ DeliverIOPub(CommClose(comm_socket.comm_id))
    /\ UNCHANGED <<open_comms, pending_rpcs, comm_shell, incoming, dead_rx,
                   n_closed, pending_log, n_pending_new>>

CommNext ==
    \/ \E s \in CommSockets, val \in OpenValues : Opened(s, val)
    \/ \E h \in Headers : PendingRpc(h)
    \/ \E c \in CommIds, m \in FrontMsgs : Message(c, m)
    \/ \E c \in CommIds : Closed(c)
    \/ \E ch \in Chans, m \in CommMsgs : CommSend(ch, m)
    \/ \E i \in 1..Len(open_comms) : RelayData(i)
    \/ \E i \in 1..Len(open_comms) : RelayRpc(i)
    \/ \E i \in 1..Len(open_comms) : RelayClose(i)

\* The receiver of IOPub, or the thread of a comm together with the
\* receiver of its incoming channel, goes away.
ReceiverDropped(rx) ==
    /\ CommStep
    /\ rx \notin dead_rx
    /\ dead_rx' = dead_rx \cup {rx}
    /\ UNCHANGED <<open_comms, pending_rpcs, iopub, comm_shell, incoming, outgoing, manager,
                   n_closed, pending_log, n_pending_new>>

\* The comm manager with receivers that can go away: comms are opened,
\* the front end sends them messages, and they send data of their own.
CommFailNext ==
    \/ \E s \in CommSockets, val \in OpenValues : Opened(s, val)
    \/ \E c \in CommIds, m \in FrontMsgs : Message(c, m)
    \/ \E ch \in Chans : CommSend(ch, Data("v1"))
    \/ \E i \in 1..Len(open_comms) : RelayData(i)
    \/ \E rx \in {IOPubRx} \cup {IncomingRx(ch) : ch \in Chans} : ReceiverDropped(rx)

\* ------------------------------------------------------------------------
\* Shell router
\* ------------------------------------------------------------------------
RequestIds == {"M1", "M2"}

\* Message variants read from the Shell socket; CommInfoRequest stands for
\* every variant that process_message has no arm for.
ShellMsgTypes ==
    {"KernelInfoRequest", "IsCompleteRequest", "ExecuteRequest", "CompleteRequest",
     "CommInfoRequest"}

ShellMessages ==
    {[type |-> t, header |-> [msg_id |-> id, session |-> "sA"]] :
        t \in ShellMsgTypes, id \in RequestIds}

NoMessage == [type |-> "none", header |-> NoHeader]

\* What state_sender carries: a bare ExecutionState, no header with it.
Status(execution_state) == [execution_state |-> execution_state, parent |-> NoHeader]

\* ExecuteReply::message_type
ExecuteReplyMessageType == "execute_request"

\* req.create_reply(ExecuteReply { status: Ok, execution_count, .. })
ExecuteReply(req, count) ==
    [msg_type |-> ExecuteReplyMessageType, parent |-> req.header, status |-> "ok",
     execution_count |-> count]

\* req.send_reply(reply, &self.socket) for the other three requests
Reply(req, msg_type) ==
    [msg_type |-> msg_type, parent |-> req.header, status |-> "ok", execution_count |-> 0]

ShellInit ==
    /\ shell_pc = "listen"
    /\ shell_msg = NoMessage
    /\ shell_result = "none"
    /\ execution_count = 0
    /\ state_chan = <<>>
    /\ shell_out = <<>>
    /\ shell_reqs = <<>>
    /\ shell_warnings = 0
    /\ shell_steps = 0

ShellStep ==
    /\ shell_steps < MaxShellSteps
    /\ shell_steps' = shell_steps + 1
    /\ UNCHANGED <<comm_vars, stdin_vars, lsp_vars, wire_vars, fwd_vars, kernel_vars, rest_vars>>

\* Shell::listen: read_message returned Ok(m)
ShellRead(msg) ==
    /\ shell_pc = "listen"
    /\ ShellStep
    /\ shell_msg' = msg
    /\ shell_reqs' = Append(shell_reqs, msg.header)
    /\ shell_pc' = "send_busy"
    /\ UNCHANGED <<shell_result, execution_count, state_chan, shell_out, shell_warnings>>

\* Shell::listen: read_message returned Err; a warning, then the next read
ShellReadError ==
    /\ shell_pc = "listen"
    /\ ShellStep
    /\ shell_warnings' = shell_warnings + 1
    /\ UNCHANGED <<shell_pc, shell_msg, shell_result, execution_count, state_chan, shell_out,
                   shell_reqs>>

\* process_message: state_sender.send(ExecutionState::Busy)
ShellSendBusy ==
    /\ shell_pc = "send_busy"
    /\ ShellStep
    /\ state_chan' = Append(state_chan, Status("Busy"))
    /\ shell_pc' = "dispatch"
    /\ UNCHANGED <<shell_msg, shell_result, execution_count, shell_out, shell_reqs, shell_warnings>>

\* handle_execute_request with the reply built before the counter is
\* incremented.
HandleExecuteRequest_StaleCount(req, sent) ==
    /\ execution_count' = execution_count + 1
    /\ shell_out' = IF sent THEN Append(shell_out, ExecuteReply(req, execution_count))
                    ELSE shell_out

\* handle_execute_request
HandleExecuteRequest(req, sent) ==
    /\ execution_count' = execution_count + 1
    /\ shell_out' = IF sent THEN Append(shell_out, ExecuteReply(req, execution_count + 1))
                    ELSE shell_out

\* handle_info_request, handle_is_complete_request, handle_complete_request
HandleOther(req, msg_type, sent) ==
    /\ shell_out' = IF sent THEN Append(shell_out, Reply(req, msg_type)) ELSE shell_out
    /\ UNCHANGED execution_count

\* The match with the error propagated at once (`?`): an unsupported message
\* returns before the idle status is sent.
ShellDispatch_EarlyReturn(sent) ==
    /\ shell_pc = "dispatch"
    /\ ShellStep
    /\ IF shell_msg.type \in {"KernelInfoRequest", "IsCompleteRequest", "CompleteRequest"}
       THEN /\ HandleOther(shell_msg, "reply", sent)
            /\ shell_result' = "Ok"
            /\ shell_pc' = "send_idle"
            /\ UNCHANGED <<shell_msg, shell_warnings>>
       ELSE IF shell_msg.type = "ExecuteRequest"
       THEN /\ HandleExecuteRequest(shell_msg, sent)
            /\ shell_result' = "Ok"
            /\ shell_pc' = "send_idle"
            /\ UNCHANGED <<shell_msg, shell_warnings>>
       ELSE /\ sent
            /\ shell_result' = "none"
            /\ shell_msg' = NoMessage
            /\ shell_warnings' = shell_warnings + 1
            /\ shell_pc' = "listen"
            /\ UNCHANGED <<execution_count, shell_out>>
    /\ UNCHANGED <<state_chan, shell_reqs>>

\* process_message: the match on the message; sent tells whether the
\* handler's send of its reply succeeded.
ShellDispatch(sent) ==
    /\ shell_pc = "dispatch"
    /\ ShellStep
    /\ CASE shell_msg.type = "KernelInfoRequest" ->
                HandleOther(shell_msg, "kernel_info_reply", sent) /\ shell_result' = "Ok"
         [] shell_msg.type = "IsCompleteRequest" ->
                HandleOther(shell_msg, "is_complete_reply", sent) /\ shell_result' = "Ok"
         [] shell_msg.type = "ExecuteRequest" ->
                HandleExecuteRequest(shell_msg, sent) /\ shell_result' = "Ok"
         [] shell_msg.type = "CompleteRequest" ->
                HandleOther(shell_msg, "complete_reply", sent) /\ shell_result' = "Ok"
         [] OTHER ->
                \* no handler runs and nothing is sent
                /\ sent
                /\ shell_result' = "UnsupportedMessage"
                /\ UNCHANGED <<execution_count, shell_out>>
    /\ shell_pc' = "send_idle"
    /\ UNCHANGED <<shell_msg, state_chan, shell_reqs, shell_warnings>>

\* process_message: state_sender.send(ExecutionState::Idle), return result;
\* listen logs a warning for an Err.
ShellSendIdle ==
    /\ shell_pc = "send_idle"
    /\ ShellStep
    /\ state_chan' = Append(state_chan, Status("Idle"))
    /\ shell_warnings' = IF shell_result = "Ok" THEN shell_warnings ELSE shell_warnings + 1
    /\ shell_result' = "none"
    /\ shell_msg' = NoMessage
    /\ shell_pc' = "listen"
    /\ UNCHANGED <<execution_count, shell_out, shell_reqs>>

ShellNext ==
    \/ \E msg \in ShellMessages : ShellRead(msg)
    \/ ShellReadError
    \/ ShellSendBusy
    \/ \E sent \in BOOLEAN : ShellDispatch(sent)
    \/ ShellSendIdle
\* ------------------------------------------------------------------------
\* StdIn
\* ------------------------------------------------------------------------
Prompts == {"p1", "p2"}

\* StdInRequest
InputRequest(prompt) == [kind |-> "InputRequest", prompt |-> prompt]

CommRequest == [kind |-> "CommRequest", prompt |-> "none"]

StdInRequests == {InputRequest(p) : p \in Prompts} \cup {CommRequest}

\* Message::InputReply; stale records that the message reached inbound_rx
\* while StdIn was not waiting for a reply.
InputReply(value, stale) == [kind |-> "input_reply", content |-> value, stale |-> stale]

\* Any other Message variant arriving on the StdIn socket.
OtherMessage(stale) == [kind |-> "other", content |-> "none", stale |-> stale]

ReplyValues == {"hi", "ho"}

\* OutboundMessage::StdIn(Message::InputRequest(..))
InputRequestMessage(req) == [kind |-> "input_request", prompt |-> req.prompt]

StdinInit ==
    /\ stdin_pc = "idle"
    /\ stdin_request_rx = <<>>
    /\ interrupt_rx = 0
    /\ inbound_rx = <<>>
    /\ outbound = <<>>
    /\ input_reply_tx = <<>>
    /\ early_interrupts = 0
    /\ stdin_steps = 0

StdinStep ==
    /\ stdin_steps < MaxStdinSteps
    /\ stdin_steps' = stdin_steps + 1
    /\ UNCHANGED <<comm_vars, shell_vars, lsp_vars, wire_vars, fwd_vars, kernel_vars, rest_vars>>

\* The language runtime sends a request on the stdin request channel.
SubmitRequest(req) ==
    /\ StdinStep
    /\ Len(stdin_request_rx) < MaxQueue
    /\ stdin_request_rx' = Append(stdin_request_rx, req)
    /\ UNCHANGED <<stdin_pc, interrupt_rx, inbound_rx, outbound, input_reply_tx, early_interrupts>>

\* An interrupt is signalled on the interrupt channel.
SignalInterrupt ==
    /\ StdinStep
    /\ interrupt_rx < MaxQueue
    /\ interrupt_rx' = interrupt_rx + 1
    /\ UNCHANGED <<stdin_pc, stdin_request_rx, inbound_rx, outbound, input_reply_tx, early_interrupts>>

\* A message from the front end reaches the inbound channel.
FrontendInputReply(value) ==
    /\ StdinStep
    /\ Len(inbound_rx) < MaxQueue
    /\ inbound_rx' = Append(inbound_rx, InputReply(value, stdin_pc # "waiting"))
    /\ UNCHANGED <<stdin_pc, stdin_request_rx, interrupt_rx, outbound, input_reply_tx, early_interrupts>>

FrontendOtherMessage ==
    /\ StdinStep
    /\ Len(inbound_rx) < MaxQueue
    /\ inbound_rx' = Append(inbound_rx, OtherMessage(stdin_pc # "waiting"))
    /\ UNCHANGED <<stdin_pc, stdin_request_rx, interrupt_rx, outbound, input_reply_tx, early_interrupts>>

\* First select, recv(stdin_request_rx): the request is turned into a message
\* and sent to the front end; a CommRequest hits todo!().
StdinTakeRequest ==
    /\ stdin_pc = "idle"
    /\ StdinStep
    /\ stdin_request_rx # <<>>
    /\ stdin_request_rx' = Tail(stdin_request_rx)
    /\ LET req == Head(stdin_request_rx) IN
        IF req.kind = "InputRequest"
        THEN /\ outbound' = Append(outbound, InputRequestMessage(req))
             /\ stdin_pc' = "waiting"
        ELSE /\ stdin_pc' = "panicked"
             /\ UNCHANGED outbound
    /\ early_interrupts' = interrupt_rx
    /\ UNCHANGED <<interrupt_rx, inbound_rx, input_reply_tx>>

\* First select, recv(interrupt_rx): ignored
StdinIgnoreInterrupt ==
    /\ stdin_pc = "idle"
    /\ StdinStep
    /\ interrupt_rx > 0
    /\ interrupt_rx' = interrupt_rx - 1
    /\ UNCHANGED <<stdin_pc, stdin_request_rx, inbound_rx, outbound, input_reply_tx, early_interrupts>>

\* The second select with the reply read but left on the channel.
StdinRecvInbound_Peek ==
    /\ stdin_pc = "waiting"
    /\ StdinStep
    /\ inbound_rx # <<>>
    /\ LET message == Head(inbound_rx) IN
        IF message.kind = "input_reply"
        THEN /\ input_reply_tx' = Append(input_reply_tx, message.content)
             /\ UNCHANGED inbound_rx
        ELSE /\ inbound_rx' = Tail(inbound_rx)
             /\ UNCHANGED input_reply_tx
    /\ stdin_pc' = "idle"
    /\ early_interrupts' = 0
    /\ UNCHANGED <<stdin_request_rx, interrupt_rx, outbound>>

\* Second select, recv(self.inbound_rx): an input_reply is handed to the
\* kernel, anything else is logged; both end the iteration.
StdinRecvInbound ==
    /\ stdin_pc = "waiting"
    /\ StdinStep
    /\ inbound_rx # <<>>
    /\ inbound_rx' = Tail(inbound_rx)
    /\ LET message == Head(inbound_rx) IN
        IF message.kind = "input_reply"
        THEN input_reply_tx' = Append(input_reply_tx, message.content)
        ELSE UNCHANGED input_reply_tx
    /\ stdin_pc' = "idle"
    /\ early_interrupts' = 0
    /\ UNCHANGED <<stdin_request_rx, interrupt_rx, outbound>>

\* Second select, recv(interrupt_rx): the iteration is cancelled
StdinInterrupted ==
    /\ stdin_pc = "waiting"
    /\ StdinStep
    /\ interrupt_rx > 0
    /\ interrupt_rx' = interrupt_rx - 1
    /\ stdin_pc' = "idle"
    /\ early_interrupts' = 0
    /\ UNCHANGED <<stdin_request_rx, inbound_rx, outbound, input_reply_tx>>

StdinNext ==
    \/ \E req \in StdInRequests : SubmitRequest(req)
    \/ SignalInterrupt
    \/ \E v \in ReplyValues : FrontendInputReply(v)
    \/ FrontendOtherMessage
    \/ StdinTakeRequest
    \/ StdinIgnoreInterrupt
    \/ StdinRecvInbound
    \/ StdinInterrupted
\* ------------------------------------------------------------------------
\* The LSP host (crates/ark/src/lsp/backend.rs)
\*
\* Handlers are futures started in message order.  A handler runs from one
\* await to the next without interleaving, so one action is the code
\* between two awaits.  Every handler starts with backend_read_method! or
\* backend_write_method!: it awaits the lease on Backend.lock, then awaits
\* the trace message while it holds the guard.  The guard is a local of the
\* block the macro expands to, so it is dropped when that block ends, before
\* the first statement of the handler's body.
\* ------------------------------------------------------------------------
Uris == {"u1"}

Versions == 1..3

\* The handlers that are modelled.
Methods ==
    {"initialize", "did_change_workspace_folders", "did_change_configuration",
     "did_change_watched_files", "did_open", "did_change", "did_close", "hover"}

\* The handlers whose parameters carry a document version.
VersionedMethods == {"did_open", "did_change"}

\* The macro each handler calls on entry: backend_write_method! requests
\* lock.write(), backend_read_method! requests lock.read().
Lease(method) ==
    CASE method = "initialize" -> "write"
      [] method = "did_change_workspace_folders" -> "write"
      [] method = "did_change_configuration" -> "write"
      [] method = "did_change_watched_files" -> "write"
      [] method = "did_open" -> "read"
      [] method = "did_change" -> "write"
      [] method = "did_close" -> "read"
      [] method = "hover" -> "read"

\* documents.get(uri) == None
NoDocument == [open |-> FALSE, version |-> 0, pending |-> {}]

\* Document::new(contents, Some(version))
NewDocument(version) == [open |-> TRUE, version |-> version, pending |-> {}]

\* The highest version reached from `version` by applying in order the
\* queued updates that follow it without a gap.
RECURSIVE Drain(_, _)
Drain(version, pending) ==
    IF version + 1 \in pending THEN Drain(version + 1, pending) ELSE version

\* Document::on_did_change: an update whose predecessors have all been
\* applied is applied together with the queued updates that follow it; an
\* update that is ahead of its predecessors is queued; an update whose
\* version the document has already reached cannot be applied in order and
\* is an error.  `version` is the version the call returns.
OnDidChange(doc, version) ==
    IF version <= doc.version
    THEN [ok |-> FALSE, doc |-> doc, version |-> doc.version]
    ELSE IF version > doc.version + 1
    THEN [ok |-> TRUE,
          doc |-> [doc EXCEPT !.pending = @ \cup {version}],
          version |-> doc.version]
    ELSE LET top == Drain(version, doc.pending)
         IN  [ok |-> TRUE,
              doc |-> [doc EXCEPT !.version = top, !.pending = {p \in @ : p > top}],
              version |-> top]

LspInit ==
    /\ handlers = <<>>
    /\ lock_queue = <<>>
    /\ lock_readers = {}
    /\ lock_writer = {}
    /\ documents = [u \in Uris |-> NoDocument]
    /\ store_lease = "none yet"
    /\ refreshes = <<>>

LspStep ==
    UNCHANGED <<comm_vars, shell_vars, stdin_vars, wire_vars, fwd_vars, kernel_vars, rest_vars>>

\* tower-lsp starts the handler of the next message of the client; the
\* handler runs up to lock.read().await or lock.write().await, which puts
\* it at the back of the queue of the lock.
LspStart(method, uri, version) ==
    /\ Len(handlers) < MaxHandlers
    /\ handlers' = Append(handlers,
            [method |-> method, uri |-> uri, version |-> version,
             lease |-> Lease(method), pc |-> "waiting"])
    /\ lock_queue' = Append(lock_queue, Len(handlers) + 1)
    /\ UNCHANGED <<lock_readers, lock_writer, documents, store_lease, refreshes>>
    /\ LspStep

\* RwLock: a shared lease can be granted while no exclusive lease is held,
\* an exclusive lease while no lease at all is held.
CanGrant_IgnoreReaders(lease) == lock_writer = {}

CanGrant(lease) ==
    IF lease = "read"
    THEN lock_writer = {}
    ELSE lock_writer = {} /\ lock_readers = {}

\* RwLock: the waiters are served first in, first out.
NextInLine_Barging(h) ==
    /\ \E i \in 1..Len(lock_queue) : lock_queue[i] = h
    /\ handlers[h].lease = "write" => h = Head(lock_queue)

NextInLine(h) == lock_queue # <<>> /\ h = Head(lock_queue)

Without(queue, h) == SelectSeq(queue, LAMBDA x : x # h)

\* lock.read().await / lock.write().await returns the guard; the handler
\* goes on to the trace message and awaits it.
AcquireLease(h) ==
    /\ NextInLine(h)
    /\ CanGrant(handlers[h].lease)
    /\ lock_queue' = Without(lock_queue, h)
    /\ lock_readers' = IF handlers[h].lease = "read" THEN lock_readers \cup {h} ELSE lock_readers
    /\ lock_writer' = IF handlers[h].lease = "write" THEN lock_writer \cup {h} ELSE lock_writer
    /\ handlers' = [handlers EXCEPT ![h].pc = "trace"]
    /\ UNCHANGED <<documents, store_lease, refreshes>>
    /\ LspStep

\* The trace message was sent: the block of the macro ends and its guard
\* is dropped.
DropGuard(h) ==
    /\ lock_readers' = lock_readers \ {h}
    /\ lock_writer' = lock_writer \ {h}

\* The lease handler h holds once its guard has been handled as DropGuard
\* says.
LeaseHeldInBody(h) ==
    IF h \in lock_writer' THEN "write"
    ELSE IF h \in lock_readers' THEN "read"
    ELSE "none"

AtTrace(h, method) ==
    /\ h \in 1..Len(handlers)
    /\ handlers[h].pc = "trace"
    /\ handlers[h].method = method

\* initialize, did_change_workspace_folders, did_change_configuration,
\* did_change_watched_files: nothing in the body touches the documents.
WriteNotification(h) ==
    /\ \E method \in Methods \ {"did_open", "did_change", "did_close", "hover"} :
            AtTrace(h, method)
    /\ DropGuard(h)
    /\ handlers' = [handlers EXCEPT ![h].pc = "done"]
    /\ UNCHANGED <<lock_queue, documents, store_lease, refreshes>>
    /\ LspStep

\* Backend::did_open
DidOpen(h) ==
    /\ AtTrace(h, "did_open")
    /\ DropGuard(h)
    /\ documents' = [documents EXCEPT ![handlers[h].uri] = NewDocument(handlers[h].version)]
    /\ store_lease' = LeaseHeldInBody(h)
    /\ refreshes' = Append(refreshes, <<handlers[h].uri, handlers[h].version>>)
    /\ handlers' = [handlers EXCEPT ![h].pc = "done"]
    /\ UNCHANGED lock_queue
    /\ LspStep

\* Backend::did_change, written as did_open is: the document is replaced by
\* one at the version of the notification.
DidChange_Replace(h) ==
    /\ AtTrace(h, "did_change")
    /\ DropGuard(h)
    /\ LET uri == handlers[h].uri
           doc == documents[uri]
       IN  IF ~doc.open
           THEN /\ handlers' = [handlers EXCEPT ![h].pc = "await"]
                /\ UNCHANGED documents
           ELSE /\ documents' = [documents EXCEPT ![uri] = NewDocument(handlers[h].version)]
                /\ handlers' = [handlers EXCEPT ![h].pc = "done"]
    /\ UNCHANGED <<lock_queue, store_lease, refreshes>>
    /\ LspStep

\* Backend::did_change with the diagnostics refreshed after every change
\* that was applied or queued.
DidChange_AlwaysRefresh(h) ==
    /\ AtTrace(h, "did_change")
    /\ DropGuard(h)
    /\ LET uri == handlers[h].uri
           doc == documents[uri]
           res == OnDidChange(doc, handlers[h].version)
       IN  IF ~doc.open
           THEN /\ handlers' = [handlers EXCEPT ![h].pc = "await"]
                /\ UNCHANGED <<documents, refreshes>>
           ELSE IF ~res.ok
           THEN /\ handlers' = [handlers EXCEPT ![h].pc = "await"]
                /\ UNCHANGED <<documents, refreshes>>
           ELSE /\ handlers' = [handlers EXCEPT ![h].pc = "done"]
                /\ documents' = [documents EXCEPT ![uri] = res.doc]
                /\ refreshes' = Append(refreshes, <<uri, res.version>>)
    /\ UNCHANGED <<lock_queue, store_lease>>
    /\ LspStep

\* Backend::did_change.  An unknown uri and a failed on_did_change are
\* traced, which is one more await, before the handler returns.
DidChange(h) ==
    /\ AtTrace(h, "did_change")
    /\ DropGuard(h)
    /\ LET uri == handlers[h].uri
           doc == documents[uri]
           res == OnDidChange(doc, handlers[h].version)
       IN  IF ~doc.open
           THEN /\ handlers' = [handlers EXCEPT ![h].pc = "await"]
                /\ UNCHANGED <<documents, refreshes>>
           ELSE IF ~res.ok
           THEN /\ handlers' = [handlers EXCEPT ![h].pc = "await"]
                /\ UNCHANGED <<documents, refreshes>>
           ELSE /\ handlers' = [handlers EXCEPT ![h].pc = "done"]
                /\ documents' = [documents EXCEPT ![uri] = res.doc]
                /\ refreshes' = IF handlers[h].version = res.version
                                 THEN Append(refreshes, <<uri, res.version>>)
                                 ELSE refreshes
    /\ UNCHANGED <<lock_queue, store_lease>>
    /\ LspStep

\* Backend::did_close: the document is removed, then either outcome is
\* traced.
DidClose(h) ==
    /\ AtTrace(h, "did_close")
    /\ DropGuard(h)
    /\ documents' = [documents EXCEPT ![handlers[h].uri] = NoDocument]
    /\ store_lease' = LeaseHeldInBody(h)
    /\ handlers' = [handlers EXCEPT ![h].pc = "await"]
    /\ UNCHANGED <<lock_queue, refreshes>>
    /\ LspStep

\* Backend::hover: an unknown uri is traced before the handler returns.
Hover(h) ==
    /\ AtTrace(h, "hover")
    /\ DropGuard(h)
    /\ handlers' = [handlers EXCEPT
            ![h].pc = IF documents[handlers[h].uri].open THEN "done" ELSE "await"]
    /\ UNCHANGED <<lock_queue, documents, store_lease, refreshes>>
    /\ LspStep

\* The trace message of the body was sent; the handler returns.
TraceReturn(h) ==
    /\ h \in 1..Len(handlers)
    /\ handlers[h].pc = "await"
    /\ handlers' = [handlers EXCEPT ![h].pc = "done"]
    /\ UNCHANGED <<lock_queue, lock_readers, lock_writer, documents, store_lease, refreshes>>
    /\ LspStep

HandlerIds == 1..MaxHandlers

LspNext ==
    \/ \E method \in Methods \ VersionedMethods, uri \in Uris : LspStart(method, uri, 0)
    \/ \E method \in VersionedMethods, uri \in Uris, version \in Versions :
            LspStart(method, uri, version)
    \/ \E h \in HandlerIds : AcquireLease(h)
    \/ \E h \in HandlerIds : WriteNotification(h)
    \/ \E h \in HandlerIds : DidOpen(h)
    \/ \E h \in HandlerIds : DidChange(h)
    \/ \E h \in HandlerIds : DidClose(h)
    \/ \E h \in HandlerIds : Hover(h)
    \/ \E h \in HandlerIds : TraceReturn(h)

\* ------------------------------------------------------------------------
\* The wire codec (src/wire/wire_message.rs)
\*
\* A frame is a byte string, written as a sequence of symbols.  The hex
\* encoding of the bytes b is <<"hex">> \o b, so that a frame decodes as
\* hex exactly when it is empty or starts with "hex"; HMAC-SHA256 is taken
\* as free of collisions: the tag of data under a key is <<"mac", key>> \o
\* data, and only tags have the length of a SHA-256 output.
\* ------------------------------------------------------------------------
\* MSG_DELIM
MSG_DELIM == <<"<IDS|MSG>">>

WireKeys == {"k1", "k2"}

\* hmac_key == None
NoKey == "none"

HexEncode(bytes) == <<"hex">> \o bytes

\* hex::decode
HexDecode(frame) ==
    IF frame = <<>> THEN [ok |-> TRUE, bytes |-> <<>>]
    ELSE IF frame[1] = "hex" THEN [ok |-> TRUE, bytes |-> Tail(frame)]
    ELSE [ok |-> FALSE, bytes |-> <<>>]

\* The bytes of all the frames, one after the other: what a MAC has seen
\* after update() was called with each of them.
RECURSIVE Concat(_)
Concat(frames) ==
    IF frames = <<>> THEN <<>> ELSE Head(frames) \o Concat(Tail(frames))

\* The tag Hmac<Sha256> computes for the data under the key.
HmacSha256(key, data) == <<"mac", key>> \o data

\* The bytes have the length of a SHA-256 output.
IsSha256Length(bytes) == bytes # <<>> /\ bytes[1] = "mac"

\* The four blobs and the buffers of a message.
WireMessage(header, parent_header, metadata, content, buffers) ==
    [header |-> header, parent_header |-> parent_header, metadata |-> metadata,
     content |-> content, buffers |-> buffers]

NoWireMessage == WireMessage(<<>>, <<>>, <<>>, <<>>, <<>>)

\* Result<WireMessage, MessageError>, or the panic of the call.
WireOk(message) == [kind |-> "Ok", error |-> "none", message |-> message]

WireErr(error) == [kind |-> "Err", error |-> error, message |-> NoWireMessage]

WirePanic == [kind |-> "Panic", error |-> "none", message |-> NoWireMessage]

NotDecoded == [kind |-> "none", error |-> "none", message |-> NoWireMessage]

\* iter.position(|buf| &buf[..] == MSG_DELIM): the index, counted from 0,
\* of the first frame that is the delimiter; -1 stands for None.
DelimPosition(bufs) ==
    IF \E i \in 1..Len(bufs) : bufs[i] = MSG_DELIM
    THEN (CHOOSE i \in 1..Len(bufs) :
            /\ bufs[i] = MSG_DELIM
            /\ \A j \in 1..(i - 1) : bufs[j] # MSG_DELIM) - 1
    ELSE -1

\* WireMessage::validate_hmac: the frame popped off the end of bufs is
\* taken for the signature and checked against the MAC of the frames that
\* are left.  GenericArray::from_slice panics on a slice that has not the
\* length of the array.
ValidateHmac(bufs, hmac_key) ==
    IF hmac_key = NoKey THEN WireOk(NoWireMessage)
    ELSE LET data == bufs[Len(bufs)]
             rest == SubSeq(bufs, 1, Len(bufs) - 1)
             decoded == HexDecode(data)
         IN  IF ~decoded.ok THEN WireErr("InvalidHmac")
             ELSE IF ~IsSha256Length(decoded.bytes) THEN WirePanic
             ELSE IF decoded.bytes # HmacSha256(hmac_key, Concat(rest))
             THEN WireErr("BadSignature")
             ELSE WireOk(NoWireMessage)

\* WireMessage::from_buffers.  bufs.drain(pos + 2..) panics when pos + 2 is
\* past the end of bufs; the frames it yields are those after the frame
\* that follows the delimiter.
FromBuffers(bufs, hmac_key) ==
    LET pos == DelimPosition(bufs)
    IN  IF pos = -1 THEN WireErr("MissingDelimiter")
        ELSE IF pos + 2 > Len(bufs) THEN WirePanic
        ELSE LET parts == SubSeq(bufs, pos + 3, Len(bufs))
             IN  IF Len(parts) < 4 THEN WireErr("InsufficientParts")
                 ELSE LET valid == ValidateHmac(parts, hmac_key)
                      IN  IF valid.kind # "Ok" THEN valid
                          ELSE WireErr("MissingDelimiter")

\* The frames of a message on the wire: identities, delimiter, signature,
\* the four blobs, buffers; the signature is empty without a key.
Encode(identities, hmac_key, m) ==
    LET blobs == <<m.header, m.parent_header, m.metadata, m.content>>
        signature == IF hmac_key = NoKey THEN <<>>
                     ELSE HexEncode(HmacSha256(hmac_key, Concat(blobs)))
    IN  identities \o <<MSG_DELIM, signature>> \o blobs \o m.buffers

\* All sequences of at most n of the frames.
RECURSIVE FrameSeqs(_, _)
FrameSeqs(frames, n) ==
    IF n = 0 THEN {<<>>}
    ELSE LET shorter == FrameSeqs(frames, n - 1)
         IN  shorter \cup {Append(s, f) : s \in shorter, f \in frames}

\* The messages that are encoded.
WireMessages ==
    {WireMessage(<<"hdr1">>, <<"par1">>, <<"{}">>, content, buffers) :
        content \in {<<"cnt1">>, <<"cnt2">>}, buffers \in FrameSeqs({<<"buf1">>}, MaxBuffers)}

WireIdentities == FrameSeqs({<<"id1">>}, MaxIdentities)

\* The frames a frame of a message is replaced with: the delimiter, an
\* empty frame, a blob, hex of the wrong length, and tags over the first
\* three blobs.
TamperFrames ==
    {MSG_DELIM, <<>>, <<"cnt2">>, HexEncode(<<"ab">>)}
        \cup {HexEncode(HmacSha256(k, <<"hdr1", "par1", "{}">>)) : k \in WireKeys}

\* The frame sequences read from a socket: the encoding of a message, with
\* one frame replaced, or cut short.
WireInputs ==
    LET encoded == {Encode(ids, k, m) :
                        ids \in WireIdentities, k \in WireKeys \cup {NoKey}, m \in WireMessages}
    IN  encoded
            \cup UNION {{[e EXCEPT ![i] = f] : i \in 1..Len(e), f \in TamperFrames} :
                            e \in encoded}
            \cup UNION {{SubSeq(e, 1, n) : n \in 0..Len(e)} : e \in encoded}

\* Nothing has been read from the socket.
WireIdle ==
    /\ wire_bufs = <<>>
    /\ wire_key = NoKey
    /\ wire_result = NotDecoded

\* socket.recv_multipart(0) returned Ok(bufs).
WireInit ==
    /\ wire_bufs \in WireInputs
    /\ wire_key \in WireKeys \cup {NoKey}
    /\ wire_result = NotDecoded

\* WireMessage::read_from_socket: from_buffers is applied to the frames.
ReadFromSocket ==
    /\ wire_result = NotDecoded
    /\ wire_result' = FromBuffers(wire_bufs, wire_key)
    /\ UNCHANGED <<wire_bufs, wire_key>>
    /\ UNCHANGED <<comm_vars, shell_vars, stdin_vars, lsp_vars, fwd_vars, kernel_vars, rest_vars>>

WireNext == ReadFromSocket

\* ------------------------------------------------------------------------
\* The StdIn forwarder and its notifier (crates/amalthea/src/kernel.rs)
\*
\* zmq::poll writes the events it found into the poll items it is given.
\* The forwarder gives it the two items of the vector poll_items, and tests
\* two other items, outbound_notif_poll_item and stdin_poll_item, made
\* from the same sockets before the loop.
\* ------------------------------------------------------------------------
OutboundMessages == {"input_request p1", "input_request p2"}

InboundFrames == {"input_reply", "other"}

\* socket.as_poll_item(zmq::POLLIN): no event has been found yet.
AsPollItem == [revents |-> FALSE]

\* PollItem::is_readable
IsReadable(item) == item.revents

\* `--n`: the negation of the negation of n.
NegNeg(n) == -(-n)

FwdInit ==
    /\ fwd_pc = "poll"
    /\ fwd_n = 0
    /\ poll_items = <<AsPollItem, AsPollItem>>
    /\ outbound_notif_poll_item = AsPollItem
    /\ stdin_poll_item = AsPollItem
    /\ notif_socket = 0
    /\ stdin_outbound_rx = <<>>
    /\ stdin_socket_rx = <<>>
    /\ stdin_socket_tx = <<>>
    /\ stdin_inbound_tx = <<>>
    /\ n_outbound = 0
    /\ n_frames = 0

FwdStep ==
    UNCHANGED <<comm_vars, shell_vars, stdin_vars, lsp_vars, wire_vars, kernel_vars, rest_vars>>

\* The StdIn worker sends a message on the stdin outbound channel.
SendOutbound(msg) ==
    /\ n_outbound < MaxForwarded
    /\ n_outbound' = n_outbound + 1
    /\ stdin_outbound_rx' = Append(stdin_outbound_rx, msg)
    /\ UNCHANGED <<fwd_pc, fwd_n, poll_items, outbound_notif_poll_item, stdin_poll_item,
                   notif_socket, stdin_socket_rx, stdin_socket_tx, stdin_inbound_tx, n_frames>>
    /\ FwdStep

\* A frame of the front end arrives on the StdIn socket.
FrameArrives(frame) ==
    /\ n_frames < MaxForwarded
    /\ n_frames' = n_frames + 1
    /\ stdin_socket_rx' = Append(stdin_socket_rx, frame)
    /\ UNCHANGED <<fwd_pc, fwd_n, poll_items, outbound_notif_poll_item, stdin_poll_item,
                   notif_socket, stdin_outbound_rx, stdin_socket_tx, stdin_inbound_tx, n_outbound>>
    /\ FwdStep

\* Kernel::zmq_notifier_thread: sel.ready() returns while a message waits
\* on the outbound channel, without taking it; a notification is sent.
Notify ==
    /\ stdin_outbound_rx # <<>>
    /\ notif_socket < MaxNotifications
    /\ notif_socket' = notif_socket + 1
    /\ UNCHANGED <<fwd_pc, fwd_n, poll_items, outbound_notif_poll_item, stdin_poll_item,
                   stdin_outbound_rx, stdin_socket_rx, stdin_socket_tx, stdin_inbound_tx,
                   n_outbound, n_frames>>
    /\ FwdStep

\* Kernel::zmq_forwarding_thread: zmq::poll(&mut poll_items, -1) returns
\* once one of the two sockets is readable, with the number of readable
\* items, and has written the events into poll_items.
ForwarderPoll ==
    /\ fwd_pc = "poll"
    /\ notif_socket > 0 \/ stdin_socket_rx # <<>>
    /\ poll_items' = <<[revents |-> notif_socket > 0], [revents |-> stdin_socket_rx # <<>>]>>
    /\ fwd_n' = (IF notif_socket > 0 THEN 1 ELSE 0) + (IF stdin_socket_rx # <<>> THEN 1 ELSE 0)
    /\ fwd_pc' = "loop"
    /\ UNCHANGED <<outbound_notif_poll_item, stdin_poll_item, notif_socket, stdin_outbound_rx,
                   stdin_socket_rx, stdin_socket_tx, stdin_inbound_tx, n_outbound, n_frames>>
    /\ FwdStep

\* Kernel::zmq_forwarding_thread: one test of `while n > 0` and, when it
\* holds, one pass through the body of the loop.  The receives block.
ForwarderLoop ==
    /\ fwd_pc = "loop"
    /\ IF fwd_n > 0
       THEN IF IsReadable(outbound_notif_poll_item)
            THEN /\ notif_socket > 0
                 /\ stdin_outbound_rx # <<>>
                 /\ notif_socket' = notif_socket - 1
                 /\ stdin_socket_tx' = Append(stdin_socket_tx, Head(stdin_outbound_rx))
                 /\ stdin_outbound_rx' = Tail(stdin_outbound_rx)
                 /\ fwd_n' = NegNeg(fwd_n)
                 /\ UNCHANGED <<fwd_pc, stdin_socket_rx, stdin_inbound_tx>>
            ELSE IF IsReadable(stdin_poll_item)
            THEN /\ stdin_socket_rx # <<>>
                 /\ stdin_inbound_tx' = Append(stdin_inbound_tx, Head(stdin_socket_rx))
                 /\ stdin_socket_rx' = Tail(stdin_socket_rx)
                 /\ fwd_n' = NegNeg(fwd_n)
                 /\ UNCHANGED <<fwd_pc, notif_socket, stdin_outbound_rx, stdin_socket_tx>>
            ELSE UNCHANGED <<fwd_pc, fwd_n, notif_socket, stdin_outbound_rx, stdin_socket_rx,
                             stdin_socket_tx, stdin_inbound_tx>>
       ELSE /\ fwd_pc' = "poll"
            /\ UNCHANGED <<fwd_n, notif_socket, stdin_outbound_rx, stdin_socket_rx,
                           stdin_socket_tx, stdin_inbound_tx>>
    /\ UNCHANGED <<poll_items, outbound_notif_poll_item, stdin_poll_item, n_outbound, n_frames>>
    /\ FwdStep

FwdNext ==
    \/ \E msg \in OutboundMessages : SendOutbound(msg)
    \/ \E frame \in InboundFrames : FrameArrives(frame)
    \/ Notify
    \/ ForwarderPoll
    \/ ForwarderLoop

\* ------------------------------------------------------------------------
\* Kernel::connect, the Shell thread and Control
\* (crates/amalthea/src/kernel.rs)
\*
\* connect creates the sockets one after the other, each creation followed
\* by `?`, and spawns the thread that owns a socket right after creating
\* it; then it signals conn_init_tx and runs Control in its own thread.
\* ------------------------------------------------------------------------
\* The sockets in the order connect creates them.
SocketNames ==
    <<"Shell", "IOPub", "Heartbeat", "Stdin", "Control", "OutboundNotifierTx",
      "OutboundNotifierRx">>

SocketIndex(name) == CHOOSE i \in 1..Len(SocketNames) : SocketNames[i] = name

\* What connect does after the socket has been created.
AfterSocket(name) ==
    IF SocketIndex(name) < Len(SocketNames) THEN SocketNames[SocketIndex(name) + 1] ELSE "signal"

\* The threads spawned between this socket's creation and the next.
Spawned(name, stream) ==
    CASE name = "Shell" -> {"shell"}
      [] name = "IOPub" -> {"iopub"}
      [] name = "Heartbeat" -> {"heartbeat"}
      [] name = "Stdin" -> {"stdin"} \cup (IF stream = "Capture" THEN {"output-capture"} ELSE {})
      [] name = "OutboundNotifierRx" -> {"zmq-forwarding", "zmq-notifier"}
      [] OTHER -> {}

KernelInit ==
    /\ connect_pc = "new"
    /\ sockets = {}
    /\ threads = {}
    /\ conn_init_tx = "None"
    /\ stream_behavior = "None"
    /\ conn_init_rx = <<>>
    /\ shell_worker = "listen"
    /\ shell_socket_rx = 0
    /\ shell_arrived = 0
    /\ control_socket_rx = 0
    /\ control_arrived = 0
    /\ control_handled = <<>>

KernelStep ==
    UNCHANGED <<comm_vars, shell_vars, stdin_vars, lsp_vars, wire_vars, fwd_vars, rest_vars>>

\* Kernel::connect is called; CommManager::start spawns the comm manager.
Connect(tx, stream) ==
    /\ connect_pc = "new"
    /\ connect_pc' = SocketNames[1]
    /\ conn_init_tx' = tx
    /\ stream_behavior' = stream
    /\ threads' = {"comm-manager"}
    /\ KernelStep
    /\ UNCHANGED <<sockets, conn_init_rx, shell_worker, shell_socket_rx, shell_arrived,
                   control_socket_rx, control_arrived, control_handled>>

\* Socket creation with the result not looked at: connect goes on after a
\* failure.
CreateSocket_Unchecked(ok) ==
    /\ connect_pc \in {SocketNames[i] : i \in 1..Len(SocketNames)}
    /\ sockets' = IF ok THEN sockets \cup {connect_pc} ELSE sockets
    /\ threads' = threads \cup Spawned(connect_pc, stream_behavior)
    /\ connect_pc' = AfterSocket(connect_pc)
    /\ KernelStep
    /\ UNCHANGED <<conn_init_tx, stream_behavior, conn_init_rx, shell_worker, shell_socket_rx,
                   shell_arrived, control_socket_rx, control_arrived, control_handled>>

\* Socket::new(..)? / Socket::new_pair(..)?, and the spawn! that follows
CreateSocket(ok) ==
    /\ connect_pc \in {SocketNames[i] : i \in 1..Len(SocketNames)}
    /\ IF ok
       THEN /\ sockets' = sockets \cup {connect_pc}
            /\ threads' = threads \cup Spawned(connect_pc, stream_behavior)
            /\ connect_pc' = AfterSocket(connect_pc)
       ELSE /\ connect_pc' = "err"
            /\ UNCHANGED <<sockets, threads>>
    /\ KernelStep
    /\ UNCHANGED <<conn_init_tx, stream_behavior, conn_init_rx, shell_worker, shell_socket_rx,
                   shell_arrived, control_socket_rx, control_arrived, control_handled>>

\* if let Some(tx) = conn_init_tx { tx.send(true).unwrap(); drop(tx); }
SendConnInit ==
    /\ connect_pc = "signal"
    /\ CASE conn_init_tx = "Some" ->
                /\ conn_init_rx' = Append(conn_init_rx, TRUE)
                /\ connect_pc' = "control_thread"
         [] conn_init_tx = "Disconnected" ->
                /\ connect_pc' = "panicked"
                /\ UNCHANGED conn_init_rx
         [] OTHER ->
                /\ connect_pc' = "control_thread"
                /\ UNCHANGED conn_init_rx
    /\ KernelStep
    /\ UNCHANGED <<sockets, threads, conn_init_tx, stream_behavior, shell_worker,
                   shell_socket_rx, shell_arrived, control_socket_rx, control_arrived,
                   control_handled>>

\* Self::control_thread(control_socket, control_handler): Control::new, listen
ControlThread ==
    /\ connect_pc = "control_thread"
    /\ connect_pc' = "listening"
    /\ KernelStep
    /\ UNCHANGED <<sockets, threads, conn_init_tx, stream_behavior, conn_init_rx, shell_worker,
                   shell_socket_rx, shell_arrived, control_socket_rx, control_arrived,
                   control_handled>>

\* The front end sends a request to the Shell socket.
ShellRequestArrives ==
    /\ "Shell" \in sockets
    /\ shell_arrived < MaxShellRequests
    /\ shell_arrived' = shell_arrived + 1
    /\ shell_socket_rx' = shell_socket_rx + 1
    /\ KernelStep
    /\ UNCHANGED <<connect_pc, sockets, threads, conn_init_tx, stream_behavior, conn_init_rx,
                   shell_worker, control_socket_rx, control_arrived, control_handled>>

\* The front end sends a request to the Control socket.
ControlRequestArrives ==
    /\ "Control" \in sockets
    /\ control_arrived < MaxControlRequests
    /\ control_arrived' = control_arrived + 1
    /\ control_socket_rx' = control_socket_rx + 1
    /\ KernelStep
    /\ UNCHANGED <<connect_pc, sockets, threads, conn_init_tx, stream_behavior, conn_init_rx,
                   shell_worker, shell_socket_rx, shell_arrived, control_handled>>

\* The Shell thread reads a request and calls its handler.
ShellEnterHandler ==
    /\ "shell" \in threads
    /\ shell_worker = "listen"
    /\ shell_socket_rx > 0
    /\ shell_socket_rx' = shell_socket_rx - 1
    /\ shell_worker' = "handler"
    /\ KernelStep
    /\ UNCHANGED <<connect_pc, sockets, threads, conn_init_tx, stream_behavior, conn_init_rx,
                   shell_arrived, control_socket_rx, control_arrived, control_handled>>

\* The handler returns (handle_execute_request: receiver.recv() got the
\* result); it may as well never return.
ShellHandlerReturns ==
    /\ shell_worker = "handler"
    /\ shell_worker' = "listen"
    /\ KernelStep
    /\ UNCHANGED <<connect_pc, sockets, threads, conn_init_tx, stream_behavior, conn_init_rx,
                   shell_socket_rx, shell_arrived, control_socket_rx, control_arrived,
                   control_handled>>

\* Control sharing the Shell handler's mutex: it waits while Shell holds it.
ControlHandle_SharedHandler ==
    /\ connect_pc = "listening"
    /\ shell_worker # "handler"
    /\ control_socket_rx > 0
    /\ control_socket_rx' = control_socket_rx - 1
    /\ control_handled' = Append(control_handled, [shell_worker |-> shell_worker])
    /\ KernelStep
    /\ UNCHANGED <<connect_pc, sockets, threads, conn_init_tx, stream_behavior, conn_init_rx,
                   shell_worker, shell_socket_rx, shell_arrived, control_arrived>>

\* Control::listen: a request is read from the Control socket and handled
\* with control_handler.
ControlHandle ==
    /\ connect_pc = "listening"
    /\ control_socket_rx > 0
    /\ control_socket_rx' = control_socket_rx - 1
    /\ control_handled' = Append(control_handled, [shell_worker |-> shell_worker])
    /\ KernelStep
    /\ UNCHANGED <<connect_pc, sockets, threads, conn_init_tx, stream_behavior, conn_init_rx,
                   shell_worker, shell_socket_rx, shell_arrived, control_arrived>>

KernelNext ==
    \/ \E tx \in {"None", "Some", "Disconnected"}, stream \in {"Capture", "None"} :
            Connect(tx, stream)
    \/ \E ok \in BOOLEAN : CreateSocket(ok)
    \/ SendConnInit
    \/ ControlThread
    \/ ShellRequestArrives
    \/ ControlRequestArrives
    \/ ShellEnterHandler
    \/ ShellHandlerReturns
    \/ ControlHandle

\* ------------------------------------------------------------------------
\* The LSP coordinator task (crates/ark/src/lsp/backend.rs, start_lsp)
\* ------------------------------------------------------------------------
NoHandlerSync == [id |-> 0, exclusive |-> FALSE]

\* tokio_channel::<HandlerSync>(1)
SyncCapacity == 1

CoordInit ==
    /\ coord_pc = "select"
    /\ coord_handler = NoHandlerSync
    /\ coord_pending = <<>>
    /\ sync_rx = <<>>
    /\ signalled = <<>>
    /\ n_registered = 0

CoordStep ==
    UNCHANGED <<comm_vars, shell_vars, stdin_vars, lsp_vars, wire_vars, fwd_vars, kernel_vars,
                freq_vars, ret_vars, front_vars, robj_vars>>

\* status_tx.send(()) of handler `h`, made by the line `by` of the task.
Signal(h, by) == Append(signalled, [id |-> h.id, exclusive |-> h.exclusive, by |-> by])

\* A handler registers: it sends its HandlerSync on sync_tx, a channel that
\* holds SyncCapacity messages.
SendHandlerSync(exclusive) ==
    /\ n_registered < MaxSyncs
    /\ Len(sync_rx) < SyncCapacity
    /\ n_registered' = n_registered + 1
    /\ sync_rx' = Append(sync_rx, [id |-> n_registered + 1, exclusive |-> exclusive])
    /\ CoordStep
    /\ UNCHANGED <<coord_pc, coord_handler, coord_pending, signalled>>

\* select!, first arm: maybe_finish_current signals pending.front(), then
\* pending.pop_front().
CoordFinishCurrent ==
    /\ coord_pc = "select"
    /\ coord_pending # <<>>
    /\ signalled' = Signal(Head(coord_pending), "finish")
    /\ coord_pending' = Tail(coord_pending)
    /\ CoordStep
    /\ UNCHANGED <<coord_pc, coord_handler, sync_rx, n_registered>>

\* select!, second arm: sync_rx.recv(); an exclusive handler starts the
\* flush, any other handler is pushed on the back of pending.
CoordRecv ==
    /\ coord_pc = "select"
    /\ sync_rx # <<>>
    /\ sync_rx' = Tail(sync_rx)
    /\ IF Head(sync_rx).exclusive
       THEN /\ coord_pc' = "flush"
            /\ coord_handler' = Head(sync_rx)
            /\ UNCHANGED coord_pending
       ELSE /\ coord_pending' = Append(coord_pending, Head(sync_rx))
            /\ UNCHANGED <<coord_pc, coord_handler>>
    /\ CoordStep
    /\ UNCHANGED <<signalled, n_registered>>

\* The flush signalling the handler queued last.
CoordFlushOne_Back ==
    /\ coord_pc = "flush"
    /\ coord_pending # <<>>
    /\ signalled' = Signal(coord_pending[Len(coord_pending)], "flush")
    /\ coord_pending' = SubSeq(coord_pending, 1, Len(coord_pending) - 1)
    /\ CoordStep
    /\ UNCHANGED <<coord_pc, coord_handler, sync_rx, n_registered>>

\* while let Some(status_tx) = pending.pop_front() { status_tx.send(()).await }
CoordFlushOne ==
    /\ coord_pc = "flush"
    /\ coord_pending # <<>>
    /\ signalled' = Signal(Head(coord_pending), "flush")
    /\ coord_pending' = Tail(coord_pending)
    /\ CoordStep
    /\ UNCHANGED <<coord_pc, coord_handler, sync_rx, n_registered>>

\* The loop is over: handler.status_tx.send(()).await; continue.
CoordSignalExclusive ==
    /\ coord_pc = "flush"
    /\ coord_pending = <<>>
    /\ signalled' = Signal(coord_handler, "exclusive")
    /\ coord_pc' = "select"
    /\ coord_handler' = NoHandlerSync
    /\ CoordStep
    /\ UNCHANGED <<coord_pending, sync_rx, n_registered>>

CoordNext ==
    \/ \E exclusive \in BOOLEAN : SendHandlerSync(exclusive)
    \/ CoordFinishCurrent
    \/ CoordRecv
    \/ CoordFlushOne
    \/ CoordSignalExclusive

\* ------------------------------------------------------------------------
\* The frequency table of the data explorer
\* (crates/ark/src/data_explorer/histogram.rs)
\*
\* The R function profile_frequency_table is modelled as the computation
\* the tests of histogram.rs pin down: the non-missing values with their
\* counts, the most frequent first, cut at `limit`, and the count of the
\* elements that are left.
\* ------------------------------------------------------------------------
Missing == "NA"

ColumnValues == {"a", "b", Missing}

Columns == UNION {[1..n -> ColumnValues] : n \in 0..MaxColumn}

None == [some |-> FALSE, val |-> 0]

Some(val) == [some |-> TRUE, val |-> val]

NoTable == [ok |-> FALSE, values |-> <<>>, counts |-> <<>>, other_count |-> None]

Count(column, v) == Cardinality({i \in DOMAIN column : column[i] = v})

Levels(column) == {column[i] : i \in DOMAIN column} \ {Missing}

\* The orders the values can come in: every value once, counts never rising.
Orderings(column) ==
    {s \in [1..Cardinality(Levels(column)) -> Levels(column)] :
        \A i, j \in DOMAIN s :
            i < j => (s[i] # s[j] /\ Count(column, s[i]) >= Count(column, s[j]))}

\* The results of the R function for one of the orders.
RProfileFrequencyTable(column, limit, s) ==
    LET n == IF limit < Len(s) THEN limit ELSE Len(s)
        counts == [i \in 1..n |-> Count(column, s[i])]
    IN  [values |-> SubSeq(s, 1, n),
         counts |-> counts,
         other_count |-> Cardinality({i \in DOMAIN column : column[i] # Missing})
                            - SumOver(counts, DOMAIN counts)]

\* other_count kept whatever the number of values.
ProfileFrequencyTable_AlwaysOther(results, limit) ==
    [ok |-> TRUE,
     values |-> results.values,
     counts |-> results.counts,
     other_count |-> Some(results.other_count)]

\* profile_frequency_table, given the results of the R call.
ProfileFrequencyTable(results, limit) ==
    [ok |-> TRUE,
     values |-> results.values,
     counts |-> results.counts,
     other_count |-> IF Len(results.counts) = limit
                     THEN Some(results.other_count)
                     ELSE None]

FreqIdle ==
    /\ freq_column = <<>>
    /\ freq_limit = 0
    /\ freq_table = NoTable

FreqInit ==
    /\ freq_column \in Columns
    /\ freq_limit \in 0..MaxLimit
    /\ freq_table = NoTable

FreqStep ==
    UNCHANGED <<comm_vars, shell_vars, stdin_vars, lsp_vars, wire_vars, fwd_vars, kernel_vars,
                coord_vars, ret_vars, front_vars, robj_vars>>

\* profile_frequency_table is called on the column.
CallProfileFrequencyTable ==
    /\ ~freq_table.ok
    /\ \E s \in Orderings(freq_column) :
          freq_table' =
              ProfileFrequencyTable(RProfileFrequencyTable(freq_column, freq_limit, s), freq_limit)
    /\ FreqStep
    /\ UNCHANGED <<freq_column, freq_limit>>

FreqNext == CallProfileFrequencyTable

\* ------------------------------------------------------------------------
\* The reticulate comm service (crates/ark/src/reticulate.rs)
\* ------------------------------------------------------------------------
RetInit ==
    /\ ret_pc = "recv"
    /\ ret_incoming_rx = <<>>
    /\ ret_outgoing_tx = <<>>
    /\ ret_delivered = 0

RetStep ==
    UNCHANGED <<comm_vars, shell_vars, stdin_vars, lsp_vars, wire_vars, fwd_vars, kernel_vars,
                coord_vars, freq_vars, front_vars, robj_vars>>

\* The comm manager delivers a message of the front end on incoming_tx.
RetDeliver(msg) ==
    /\ ret_delivered < MaxDelivered
    /\ ret_delivered' = ret_delivered + 1
    /\ ret_incoming_rx' = Append(ret_incoming_rx, msg)
    /\ RetStep
    /\ UNCHANGED <<ret_pc, ret_outgoing_tx>>

\* handle_messages, one turn of the loop: Close is answered with Close and
\* ends the loop, Data is forwarded, anything else is dropped.
RetHandle ==
    /\ ret_pc = "recv"
    /\ ret_incoming_rx # <<>>
    /\ ret_incoming_rx' = Tail(ret_incoming_rx)
    /\ LET msg == Head(ret_incoming_rx) IN
        CASE msg.kind = "Close" ->
                /\ ret_outgoing_tx' = Append(ret_outgoing_tx, Close)
                /\ ret_pc' = "after_loop"
          [] msg.kind = "Data" ->
                /\ ret_outgoing_tx' = Append(ret_outgoing_tx, msg)
                /\ UNCHANGED ret_pc
          [] OTHER -> UNCHANGED <<ret_outgoing_tx, ret_pc>>
    /\ RetStep
    /\ UNCHANGED ret_delivered

\* incoming_rx.recv() fails: the error is logged and the loop ends.
RetRecvError ==
    /\ ret_pc = "recv"
    /\ ret_incoming_rx = <<>>
    /\ ret_pc' = "after_loop"
    /\ RetStep
    /\ UNCHANGED <<ret_incoming_rx, ret_outgoing_tx, ret_delivered>>

\* After the loop: "before finalizing the thread we make sure to send a
\* close message to the front end".
RetFinalClose ==
    /\ ret_pc = "after_loop"
    /\ ret_outgoing_tx' = Append(ret_outgoing_tx, Close)
    /\ ret_pc' = "done"
    /\ RetStep
    /\ UNCHANGED <<ret_incoming_rx, ret_delivered>>

RetNext ==
    \/ \E msg \in CommMsgs : RetDeliver(msg)
    \/ RetHandle
    \/ RetRecvError
    \/ RetFinalClose

\* ------------------------------------------------------------------------
\* The front-end comm handler (crates/ark/src/frontend/frontend.rs)
\*
\* The data of an Rpc the front end sends is what matters of it to the
\* handler: "garbage" does not decode as a FrontendMessage, "event" decodes
\* as one that is no RpcRequest, "request" is an RpcRequest.
\* ------------------------------------------------------------------------
FrontendRpcs == {Rpc(id, d) : id \in {"r1", "r2"}, d \in {"garbage", "event", "request"}}

FrontInit ==
    /\ front_pc = "select"
    /\ front_incoming_rx = <<>>
    /\ front_outgoing_tx = <<>>
    /\ front_delivered = 0

FrontStep ==
    UNCHANGED <<comm_vars, shell_vars, stdin_vars, lsp_vars, wire_vars, fwd_vars, kernel_vars,
                coord_vars, freq_vars, ret_vars, robj_vars>>

\* The comm manager delivers a message of the front end on incoming_tx.
FrontDeliver(msg) ==
    /\ front_delivered < MaxFrontDelivered
    /\ front_delivered' = front_delivered + 1
    /\ front_incoming_rx' = Append(front_incoming_rx, msg)
    /\ FrontStep
    /\ UNCHANGED <<front_pc, front_outgoing_tx>>

\* handle_rpc_request with the outcome of the `exists` call ("error",
\* "false" or "true") and of the call of the method: what it sends.
HandleRpcRequest(id, exists, call_ok) ==
    CASE exists = "error" -> <<>>
      [] exists = "false" -> <<Rpc(id, "RpcResultError MethodNotFound")>>
      [] OTHER -> IF call_ok
                  THEN <<Rpc(id, "RpcResultResponse")>>
                  ELSE <<Rpc(id, "RpcResultError InternalError")>>

\* handle_comm_message: what it sends for a message.
HandleCommMessage(msg, exists, call_ok) ==
    IF msg.kind = "Rpc" /\ msg.data = "request"
    THEN HandleRpcRequest(msg.id, exists, call_ok)
    ELSE <<>>

\* execution_thread, recv(&self.comm.incoming_rx): the message is handled;
\* Close ends the thread.
FrontRecv ==
    /\ front_pc = "select"
    /\ front_incoming_rx # <<>>
    /\ front_incoming_rx' = Tail(front_incoming_rx)
    /\ \E exists \in {"error", "false", "true"}, call_ok \in BOOLEAN :
          front_outgoing_tx' =
              front_outgoing_tx \o HandleCommMessage(Head(front_incoming_rx), exists, call_ok)
    /\ front_pc' = IF Head(front_incoming_rx).kind = "Close" THEN "closed" ELSE "select"
    /\ FrontStep
    /\ UNCHANGED front_delivered

\* execution_thread, recv(&self.frontend_rx): dispatch_event sends the event
\* as Data.
FrontDispatchEvent ==
    /\ front_pc = "select"
    /\ Len(front_outgoing_tx) < MaxFrontDelivered
    /\ front_outgoing_tx' = Append(front_outgoing_tx, Data("v1"))
    /\ FrontStep
    /\ UNCHANGED <<front_pc, front_incoming_rx, front_delivered>>

FrontNext ==
    \/ \E msg \in FrontendRpcs \cup {Data("v1"), Close} : FrontDeliver(msg)
    \/ FrontRecv
    \/ FrontDispatchEvent

\* ------------------------------------------------------------------------
\* RObject and R's protect stack (amalthea/ark/src/r/object.rs)
\* ------------------------------------------------------------------------
R_NilValue == "nil"

SEXPs == {R_NilValue, "s1", "s2"}

RObjInit ==
    /\ protect_stack = <<>>
    /\ robjects = {}
    /\ n_robjects = 0

RObjStep ==
    UNCHANGED <<comm_vars, shell_vars, stdin_vars, lsp_vars, wire_vars, fwd_vars, kernel_vars,
                coord_vars, freq_vars, ret_vars, front_vars>>

\* Rf_protect: the SEXP is pushed.
Rf_protect(stack, data) == Append(stack, data)

\* Rf_unprotect(n): the n SEXPs on top are popped.
Rf_unprotect(stack, n) == SubSeq(stack, 1, Len(stack) - n)

\* RObject::new
RObjectNew(data) ==
    /\ n_robjects < MaxRObjects
    /\ n_robjects' = n_robjects + 1
    /\ protect_stack' = IF data # R_NilValue THEN Rf_protect(protect_stack, data)
                        ELSE protect_stack
    /\ robjects' = robjects \cup {[id |-> n_robjects + 1, data |-> data]}
    /\ RObjStep

\* Drop for RObject
RObjectDrop(obj) ==
    /\ obj \in robjects
    /\ protect_stack' = IF obj.data # R_NilValue THEN Rf_unprotect(protect_stack, 1)
                        ELSE protect_stack
    /\ robjects' = robjects \ {obj}
    /\ RObjStep
    /\ UNCHANGED n_robjects

RObjNext ==
    \/ \E data \in SEXPs : RObjectNew(data)
    \/ \E obj \in robjects : RObjectDrop(obj)

\* ------------------------------------------------------------------------
\* Specifications
\* ------------------------------------------------------------------------
RestInit == CoordInit /\ FreqIdle /\ RetInit /\ FrontInit /\ RObjInit

Init ==
    CommInit /\ ShellInit /\ StdinInit /\ LspInit /\ WireIdle /\ FwdInit /\ KernelInit
    /\ RestInit

SpecComm == Init /\ [][CommNext]_vars

SpecCommFail == Init /\ [][CommFailNext]_vars

SpecShell == Init /\ [][ShellNext]_vars

SpecStdin == Init /\ [][StdinNext]_vars

SpecLsp == Init /\ [][LspNext]_vars

\* The wire codec starts from any of the frame sequences and keys.
InitWire ==
    CommInit /\ ShellInit /\ StdinInit /\ LspInit /\ WireInit /\ FwdInit /\ KernelInit
    /\ RestInit

SpecWire == InitWire /\ [][WireNext]_vars

\* The forwarder and the notifier are threads of their own: each of them
\* takes a step it can take.
SpecForwarder ==
    /\ Init
    /\ [][FwdNext]_vars
    /\ WF_vars(ForwarderPoll)
    /\ WF_vars(ForwarderLoop)
    /\ WF_vars(Notify)

SpecKernel == Init /\ [][KernelNext]_vars

\* Control runs in the thread that called connect, a thread of its own: it
\* takes a step it can take.  Nothing is assumed of the Shell handler.
SpecKernelLive == Init /\ [][KernelNext]_vars /\ WF_vars(ControlHandle)

SpecCoordinator == Init /\ [][CoordNext]_vars

\* The frequency table starts from any of the columns and limits.
InitFreq ==
    CommInit /\ ShellInit /\ StdinInit /\ LspInit /\ WireIdle /\ FwdInit /\ KernelInit
    /\ CoordInit /\ FreqInit /\ RetInit /\ FrontInit /\ RObjInit

SpecFrequency == InitFreq /\ [][FreqNext]_vars

SpecRObject == Init /\ [][RObjNext]_vars

SpecFrontend == Init /\ [][FrontNext]_vars

SpecReticulate == Init /\ [][RetNext]_vars

\* ------------------------------------------------------------------------
\* Properties of the comm manager
\* ------------------------------------------------------------------------
Last(seq) == seq[Len(seq)]

\* Number of sockets in open_comms with this comm id.
Entries(comm_id) ==
    Cardinality({i \in 1..Len(open_comms) : open_comms[i].comm_id = comm_id})

\* Opened(id) events processed: each one sent Added(id, _) to the shell.
NOpened(comm_id) ==
    Cardinality({i \in 1..Len(comm_shell) :
        comm_shell[i].kind = "Added" /\ comm_shell[i].comm_id = comm_id})

\* Closed(id) events that found a socket: each one sent Removed(id) to the shell.
NClosedOpen(comm_id) ==
    Cardinality({i \in 1..Len(comm_shell) :
        comm_shell[i].kind = "Removed" /\ comm_shell[i].comm_id = comm_id})

\* PendingRpc events processed that carried this msg_id.
PendingCount(msg_id) ==
    Cardinality({i \in 1..Len(pending_log) : pending_log[i].msg_id = msg_id})

\* CommMsgReply messages sent on IOPub whose parent header has this msg_id.
Replies(msg_id) ==
    Cardinality({i \in 1..Len(iopub) :
        iopub[i].kind = "CommMsgReply" /\ iopub[i].parent.msg_id = msg_id})

RepliesSent == Cardinality({i \in 1..Len(iopub) : iopub[i].kind = "CommMsgReply"})

\* C1 (as claimed): open_comms holds at most one CommSocket per comm_id, also
\* when Opened is received more than once for the same comm_id.
C1_AtMostOneSocketPerId == \A c \in CommIds : Entries(c) <= 1

\* C2 (as claimed): the number of entries for id in open_comms equals the
\* Opened(id) events processed minus the Closed(id) events processed.
C2_EntriesOpenedMinusClosed == \A c \in CommIds : Entries(c) = NOpened(c) - n_closed[c]

\* C2 (amended): the number of entries for id in open_comms equals the
\* Opened(id) events processed minus the Closed(id) events processed while an
\* entry for id was in open_comms.
C2_EntriesOpenedMinusClosedOpen == \A c \in CommIds : Entries(c) = NOpened(c) - NClosedOpen(c)

\* A Closed that found nothing, a Closed that removed one of two entries.
C2_Witness ==
    \E c \in CommIds :
        /\ n_closed[c] > NClosedOpen(c)
        /\ NClosedOpen(c) = 1
        /\ NOpened(c) = 2
        /\ Entries(c) = 1

\* C3: when the manager takes Rpc(request_id, v) from a comm's outgoing
\* channel it does exactly one of: (a) request_id is a key of pending_rpcs: the
\* entry is removed and CommMsgReply(stored header, {comm_id, v}) is sent on
\* IOPub; (b) otherwise pending_rpcs is unchanged and CommMsgRequest({comm_id,
\* v}) is sent.
C3_RpcReplyOrRequest ==
    [][\A i \in 1..Len(open_comms) :
        RelayRpc(i) =>
            LET comm_socket == open_comms[i]
                comm_msg == Head(outgoing[comm_socket.chan])
                payload == [comm_id |-> comm_socket.comm_id, data |-> comm_msg.data] IN
            IF comm_msg.id \in DOMAIN pending_rpcs
            THEN /\ DOMAIN pending_rpcs' = DOMAIN pending_rpcs \ {comm_msg.id}
                 /\ \A k \in DOMAIN pending_rpcs' : pending_rpcs'[k] = pending_rpcs[k]
                 /\ Len(iopub') = Len(iopub) + 1
                 /\ Last(iopub').kind = "CommMsgReply"
                 /\ Last(iopub').parent = pending_rpcs[comm_msg.id]
                 /\ LET ks == {k \in 1..Len(pending_log) : pending_log[k].msg_id = comm_msg.id} IN
                      /\ ks # {}
                      /\ \E k \in ks : /\ \A j \in ks : j <= k
                                        /\ Last(iopub').parent = pending_log[k]
                 /\ Last(iopub').payload = payload
            ELSE /\ pending_rpcs' = pending_rpcs
                 /\ Len(iopub') = Len(iopub) + 1
                 /\ Last(iopub').kind = "CommMsgRequest"
                 /\ Last(iopub').payload = payload]_vars

\* Both arms have been taken: a reply and a request are on IOPub.
C3_Witness ==
    /\ \E i \in 1..Len(iopub) : iopub[i].kind = "CommMsgReply"
    /\ \E i \in 1..Len(iopub) : iopub[i].kind = "CommMsgRequest"

\* C4 (as claimed): the size of pending_rpcs equals the PendingRpc events
\* processed minus the Rpc messages whose request_id was found, also when two
\* PendingRpc events carry the same msg_id.
C4_SizePendingMinusFound ==
    Cardinality(DOMAIN pending_rpcs) = Len(pending_log) - RepliesSent

\* C4 (amended): the size of pending_rpcs equals the PendingRpc events
\* processed whose msg_id was not a key of the table when they were processed,
\* minus the Rpc messages whose request_id was found.
C4_SizeNewPendingMinusFound ==
    Cardinality(DOMAIN pending_rpcs) = n_pending_new - RepliesSent

\* Two PendingRpc with one msg_id, and an Rpc that found its entry.
C4_Witness ==
    /\ n_pending_new < Len(pending_log)
    /\ RepliesSent >= 1

\* C5: after one PendingRpc(h), the first Rpc(h.msg_id, _) taken from a comm
\* is sent as CommMsgReply with parent h and removes the entry; every later
\* Rpc with that id is not sent as a reply, so exactly one reply with parent h
\* is on IOPub.
C5_ExactlyOneReply ==
    [][\A m \in MsgIds :
        PendingCount(m) = 1 =>
            \A i \in 1..Len(open_comms) :
                (RelayRpc(i) /\ Head(outgoing[open_comms[i].chan]).id = m /\ PendingCount(m)' = 1) =>
                    /\ m \notin DOMAIN pending_rpcs'
                    /\ Replies(m)' = 1
                    /\ \A k \in 1..Len(iopub') :
                         iopub'[k].kind = "CommMsgReply" /\ iopub'[k].parent.msg_id = m
                            => \E j \in 1..Len(pending_log) : pending_log[j] = iopub'[k].parent
                    /\ Replies(m) = 1 => Last(iopub').kind # "CommMsgReply"]_vars

\* One PendingRpc(r1), one reply for r1, and a later Rpc(r1, _) sent as a request.
C5_Witness ==
    /\ PendingCount("r1") = 1
    /\ Replies("r1") = 1
    /\ \E i \in 1..Len(iopub) : \E j \in (i + 1)..Len(iopub) :
         /\ iopub[i].kind = "CommMsgReply"
         /\ iopub[j].kind = "CommMsgRequest"
         /\ iopub[j].payload.data = "v1"

\* C6 (as claimed): once the manager has relayed a Close taken from a comm's
\* outgoing channel, that comm is no longer in open_comms.
C6_CloseRemovesComm ==
    [][\A i \in 1..Len(open_comms) :
        RelayClose(i) =>
            \A j \in 1..Len(open_comms') : open_comms'[j].chan # open_comms[i].chan]_vars

\* ------------------------------------------------------------------------
\* Properties of the Shell router
\* ------------------------------------------------------------------------
\* The statuses on state_sender alternate Busy, Idle, starting with Busy.
StatusesAlternate ==
    \A i \in 1..Len(state_chan) :
        state_chan[i].execution_state = IF i % 2 = 1 THEN "Busy" ELSE "Idle"

\* Where the router stands against the statuses sent: the message read last
\* is the Len(shell_reqs)-th one.
StatusesBracketMessages ==
    /\ shell_pc = "listen" => Len(state_chan) = 2 * Len(shell_reqs)
    /\ shell_pc = "send_busy" => Len(state_chan) = 2 * Len(shell_reqs) - 2
    /\ shell_pc \in {"dispatch", "send_idle"} => Len(state_chan) = 2 * Len(shell_reqs) - 1

C8_StatusParentIsRequestHeader ==
    \A i \in 1..Len(state_chan) : state_chan[i].parent = shell_reqs[(i + 1) \div 2]

\* ------------------------------------------------------------------------
\* Properties of StdIn
\* ------------------------------------------------------------------------
\* C9: each InputRequest taken while idle puts exactly one input_request on
\* the outbound channel; nothing more is sent until an inbound message or an
\* interrupt has ended the wait; the content of the input_reply that ends the
\* wait is delivered exactly once on input_reply_tx.
C9_OneRequestOneReply ==
    /\ [](Len(input_reply_tx) + (IF stdin_pc = "waiting" THEN 1 ELSE 0) <= Len(outbound))
    /\ [][/\ (stdin_pc = "idle" /\ stdin_request_rx # <<>>
                /\ stdin_request_rx' = Tail(stdin_request_rx)
                /\ Head(stdin_request_rx).kind = "InputRequest") =>
                /\ outbound' = Append(outbound,
                        [kind |-> "input_request", prompt |-> Head(stdin_request_rx).prompt])
                /\ stdin_pc' = "waiting"
          /\ outbound' # outbound =>
                /\ stdin_pc = "idle"
                /\ stdin_pc' = "waiting"
                /\ Len(outbound') = Len(outbound) + 1
          /\ (stdin_pc = "waiting" /\ stdin_pc' # "waiting") =>
                \/ inbound_rx # <<>> /\ inbound_rx' = Tail(inbound_rx)
                \/ interrupt_rx' = interrupt_rx - 1
          /\ (stdin_pc = "waiting" /\ inbound_rx # <<>> /\ stdin_pc' # "waiting"
                /\ Head(inbound_rx).kind = "input_reply" /\ interrupt_rx' = interrupt_rx) =>
                /\ input_reply_tx' = Append(input_reply_tx, Head(inbound_rx).content)
                /\ inbound_rx' = Tail(inbound_rx)
          /\ input_reply_tx' # input_reply_tx =>
                /\ stdin_pc = "waiting"
                /\ stdin_pc' = "idle"
                /\ inbound_rx # <<>>
                /\ Head(inbound_rx).kind = "input_reply"
                /\ inbound_rx' = Tail(inbound_rx)
                /\ input_reply_tx' = Append(input_reply_tx, Head(inbound_rx).content)]_vars

\* Two requests sent: one wait ended by its reply, which was delivered, the
\* other by an interrupt or by a message that is no reply.
C9_Witness ==
    /\ stdin_pc = "idle"
    /\ Len(outbound) = 2
    /\ Len(input_reply_tx) = 1

\* C10 (as claimed): an input_reply that reached the inbound channel while no
\* request was outstanding is dropped: taking it delivers nothing on
\* input_reply_tx.
C10_StaleReplyDropped ==
    [][(/\ inbound_rx # <<>>
        /\ inbound_rx' = Tail(inbound_rx)
        /\ Head(inbound_rx).kind = "input_reply"
        /\ Head(inbound_rx).stale) => input_reply_tx' = input_reply_tx]_vars

\* ------------------------------------------------------------------------
\* Properties of the LSP host
\* ------------------------------------------------------------------------
\* Handlers that hold a lease: granted, guard not yet dropped.
Holding(lease) ==
    {h \in 1..Len(handlers) : handlers[h].pc = "trace" /\ handlers[h].lease = lease}

\* C11: in every reachable state an exclusive lease and a shared lease are
\* never held at the same time, and at most one exclusive lease is held.
C11_LeasesExclude ==
    /\ Cardinality(Holding("write")) <= 1
    /\ Holding("write") = {} \/ Holding("read") = {}
    /\ lock_writer = Holding("write")
    /\ lock_readers = Holding("read")

\* A shared lease is held while a write handler waits, and in another state
\* an exclusive lease is held while a read handler waits.
C11_Witness ==
    /\ Holding("write") # {}
    /\ \E h \in 1..Len(handlers) : handlers[h].pc = "waiting" /\ handlers[h].lease = "read"
    /\ \E h \in 1..Len(handlers) : handlers[h].pc = "done" /\ handlers[h].lease = "read"

\* Handlers that have been granted their lease and have not returned.
Executing(method) ==
    {h \in 1..Len(handlers) :
        handlers[h].method = method /\ handlers[h].pc \in {"trace", "await"}}

\* C12: while did_change is running, from the grant of its lease until it
\* returns, no read handler (hover) is executing.
C12_NoReadDuringDidChange ==
    Executing("did_change") = {} \/ Executing("hover") = {}

\* The handlers that change the state of the server.
StateMutating ==
    {"initialize", "did_open", "did_change", "did_close", "did_change_configuration",
     "did_change_watched_files", "did_change_workspace_folders"}

\* C13: every state-mutating handler requests the exclusive lease on entry,
\* and every insertion into or removal from the document store is made by
\* a handler that holds the exclusive lease.
C13_MutatingHandlersExclusive ==
    /\ \A h \in 1..Len(handlers) :
            handlers[h].method \in StateMutating => handlers[h].lease = "write"
    /\ store_lease \in {"none yet", "write"}

\* Handler h is waiting for a lease of this kind.
Waiting(h, lease) == handlers[h].pc = "waiting" /\ handlers[h].lease = lease

\* C14: once a write handler waits for the exclusive lease, no read handler
\* that requested its shared lease afterwards is granted it before that
\* writer; and at the step that grants a writer its lease no shared lease
\* is held any more.
C14_WriterPriority ==
    /\ [](\A w \in 1..Len(handlers), r \in 1..Len(handlers) :
            (w < r /\ Waiting(w, "write") /\ handlers[r].lease = "read")
                => handlers[r].pc = "waiting")
    /\ [][\A w \in 1..Len(handlers) :
            (Waiting(w, "write") /\ handlers'[w].pc = "trace") => lock_readers = {}]_vars

\* A writer waits behind a reader that holds its lease, and a reader that
\* came after the writer waits as well.
C14_Witness ==
    \E h \in 1..Len(handlers), w \in 1..Len(handlers), r \in 1..Len(handlers) :
        /\ h < w /\ w < r
        /\ h \in lock_readers
        /\ Waiting(w, "write")
        /\ Waiting(r, "read")

\* This step is the body of handler h, a handler of `method`.
Handled(h, method) ==
    /\ handlers[h].method = method
    /\ handlers[h].pc = "trace"
    /\ handlers'[h].pc # "trace"

\* C15: over any sequence of didOpen and didChange the version of a
\* document never decreases, and once a didChange carrying version v has
\* been handled the document reports version v.
C15_VersionMonotone ==
    [][/\ \A u \in Uris :
            (documents[u].open /\ documents'[u].open)
                => documents'[u].version >= documents[u].version
       /\ \A h \in 1..Len(handlers) :
            (Handled(h, "did_change") /\ documents[handlers[h].uri].open)
                => documents'[handlers[h].uri].version = handlers[h].version]_vars

\* C15, amended: a didChange never lowers the version of an open document;
\* it leaves the document at the version v it carries, or at a higher one
\* reached through queued updates, when v is the successor of the current
\* version, and leaves the version unchanged otherwise; a didOpen sets the
\* version to the one it carries.
C15_VersionMonotoneOverDidChange ==
    [][/\ \A h \in 1..Len(handlers) :
            (Handled(h, "did_change") /\ documents[handlers[h].uri].open)
                => LET old == documents[handlers[h].uri]
                       new == documents'[handlers[h].uri]
                       v == handlers[h].version
                   IN  /\ new.open
                       /\ new.version >= old.version
                       /\ v = old.version + 1
                            => /\ new.version >= v
                               /\ new.version = v \/ v + 1 \in old.pending
                       /\ v # old.version + 1 => new.version = old.version
       /\ \A h \in 1..Len(handlers) :
            Handled(h, "did_open")
                => documents'[handlers[h].uri] = NewDocument(handlers[h].version)]_vars

\* The document is at version 3 after a didChange carrying 3 and a later
\* didChange carrying 2: the first was queued and applied with the second.
C15_Witness ==
    \E h \in 1..Len(handlers), k \in 1..Len(handlers), u \in Uris :
        /\ h < k
        /\ handlers[h].method = "did_change" /\ handlers[h].version = 3
        /\ handlers[k].method = "did_change" /\ handlers[k].version = 2
        /\ handlers[h].pc = "done" /\ handlers[k].pc = "done"
        /\ handlers[h].uri = u /\ handlers[k].uri = u
        /\ documents[u].open /\ documents[u].version = 3 /\ documents[u].pending = {}

\* ------------------------------------------------------------------------
\* Properties of the wire codec
\* ------------------------------------------------------------------------
Decoded == wire_result # NotDecoded

\* The messages and identities whose encoding with this key is bufs.
EncodedAs(bufs, hmac_key) ==
    {p \in WireIdentities \X WireMessages : bufs = Encode(p[1], hmac_key, p[2])}

\* C16: for the frames obtained by encoding a message m with key k,
\* from_buffers with the same key returns Ok with a message equal to m,
\* also when there is no key.
C16_DecodeInvertsEncode ==
    Decoded =>
        \A p \in EncodedAs(wire_bufs, wire_key) : wire_result = WireOk(p[2])

\* The frames that follow the first delimiter of bufs.
AfterDelimiter(bufs) == SubSeq(bufs, DelimPosition(bufs) + 2, Len(bufs))

\* C17: with a key, the frame directly after the delimiter is checked
\* against the HMAC of exactly the four frames that follow it, in wire
\* order: decoding fails with BadSignature exactly when that frame is not
\* the hex form of that HMAC.
C17_SignatureCoversFourBlobs ==
    LET after == AfterDelimiter(wire_bufs)
        signature == HexDecode(after[1])
    IN  (/\ Decoded
         /\ wire_key # NoKey
         /\ DelimPosition(wire_bufs) # -1
         /\ Len(after) >= 5
         /\ signature.ok
         /\ IsSha256Length(signature.bytes))
            => (wire_result = WireErr("BadSignature")
                    <=> signature.bytes # HmacSha256(wire_key, Concat(SubSeq(after, 2, 5))))

\* C18: from_buffers never panics; it returns MissingDelimiter exactly when
\* no frame is the delimiter, InsufficientParts whenever fewer than five
\* frames follow the delimiter, and InvalidHmac when a key is present and
\* the signature frame is not hexadecimal.
C18_ErrorsClassified ==
    LET after == AfterDelimiter(wire_bufs)
    IN  Decoded =>
            /\ wire_result.kind # "Panic"
            /\ wire_result = WireErr("MissingDelimiter") <=> DelimPosition(wire_bufs) = -1
            /\ (DelimPosition(wire_bufs) # -1 /\ Len(after) < 5)
                    => wire_result = WireErr("InsufficientParts")
            /\ (/\ DelimPosition(wire_bufs) # -1
                /\ Len(after) >= 5
                /\ wire_key # NoKey
                /\ ~HexDecode(after[1]).ok)
                    => wire_result = WireErr("InvalidHmac")

\* ------------------------------------------------------------------------
\* Properties of the comm manager when a receiver is gone
\* ------------------------------------------------------------------------
\* C19: a send of the manager that fails, to IOPub or to the incoming
\* channel of a comm whose receiver is gone, does not stop the manager.
C19_FailedSendKeepsManagerRunning == manager = "running"

\* ------------------------------------------------------------------------
\* Properties of the StdIn forwarder
\* ------------------------------------------------------------------------
\* C20: neither direction starves.  Every message put on the stdin
\* outbound channel is eventually written to the StdIn socket, every frame
\* that arrives on the StdIn socket is eventually sent on the inbound
\* channel, and in each poll cycle the forwarder finds a readable source,
\* handles it and returns to polling.
C20_NeitherDirectionStarves ==
    /\ [](fwd_pc = "loop"
            => IsReadable(outbound_notif_poll_item) \/ IsReadable(stdin_poll_item))
    /\ \A k \in 1..MaxForwarded : (n_outbound >= k) ~> (Len(stdin_socket_tx) >= k)
    /\ \A k \in 1..MaxForwarded : (n_frames >= k) ~> (Len(stdin_inbound_tx) >= k)
    /\ (fwd_pc = "loop") ~> (fwd_pc = "poll")

\* C22: a CommRequest taken from the request channel is sent to the front
\* end on the StdIn socket and the worker goes on to wait for the response
\* (it stays alive and serves later requests).
C22_CommRequestServed ==
    [][(/\ stdin_pc = "idle"
        /\ stdin_request_rx # <<>>
        /\ Head(stdin_request_rx).kind = "CommRequest"
        /\ stdin_request_rx' = Tail(stdin_request_rx))
       => (/\ Len(outbound') = Len(outbound) + 1
           /\ stdin_pc' = "waiting")]_vars

\* C23: the reply sent for an execute_request has message type execute_reply,
\* which differs from the request's type execute_request, and carries the
\* current execution_count.
C23_ExecuteReplyType ==
    [][(/\ shell_pc = "dispatch"
        /\ shell_msg.type = "ExecuteRequest"
        /\ Len(shell_out') = Len(shell_out) + 1)
       => (/\ Last(shell_out').msg_type = "execute_reply"
           /\ Last(shell_out').msg_type # "execute_request"
           /\ Last(shell_out').parent = shell_msg.header
           /\ Last(shell_out').execution_count = execution_count')]_vars

\* C24: when the router is done with a request of a type it has no handler
\* for, an error reply carrying that request's id has been sent on Shell, and
\* the router is listening again.
C24_UnsupportedGetsErrorReply ==
    [][(/\ shell_pc # "listen"
        /\ shell_pc' = "listen"
        /\ shell_msg.type \notin {"KernelInfoRequest", "IsCompleteRequest",
                                  "ExecuteRequest", "CompleteRequest"})
       => \E i \in 1..Len(shell_out') :
            /\ shell_out'[i].parent = shell_msg.header
            /\ shell_out'[i].status = "error"]_vars

\* The IOPub message the relay builds from a comm's message.
RelayedAs(comm_msg, comm_id, m) ==
    CASE comm_msg.kind = "Data" ->
            m = CommMsgEvent(CommWireMsg(comm_id, comm_msg.data))
      [] comm_msg.kind = "Rpc" ->
            /\ m.kind \in {"CommMsgReply", "CommMsgRequest"}
            /\ m.payload = CommWireMsg(comm_id, comm_msg.data)
      [] OTHER -> m = CommClose(comm_id)

\* C25: the messages of one comm reach IOPub in the order the comm sent
\* them.  A comm's outgoing channel changes only by a send appending at its
\* end or by the manager taking its oldest message, and the manager puts the
\* message it took, relayed under the id of a comm that owns the channel, at
\* the end of IOPub; events and other comms' messages append to IOPub only.
C25_RelayedInOrder ==
    [][/\ \E k \in 0..1 : Len(iopub') = Len(iopub) + k /\ SubSeq(iopub', 1, Len(iopub)) = iopub
       /\ \A ch \in Chans : outgoing'[ch] # outgoing[ch] =>
            \/ /\ \E m \in CommMsgs : outgoing'[ch] = Append(outgoing[ch], m)
               /\ iopub' = iopub
            \/ /\ outgoing[ch] # <<>>
               /\ outgoing'[ch] = Tail(outgoing[ch])
               /\ Len(iopub') = Len(iopub) + 1
               /\ \E i \in 1..Len(open_comms) :
                    /\ open_comms[i].chan = ch
                    /\ RelayedAs(Head(outgoing[ch]), open_comms[i].comm_id, Last(iopub'))]_vars

\* Comm c1 sent Data then Close; both were relayed in that order, with the
\* comm_open of another comm between them.
C25_Witness ==
    \E i, j, k \in 1..Len(iopub) :
        /\ i < j /\ j < k
        /\ iopub[i] = CommMsgEvent(CommWireMsg("c1", "v1"))
        /\ iopub[j].kind = "CommOpen" /\ iopub[j].comm_id = "c2"
        /\ iopub[k] = CommClose("c1")

\* C26: a step that processes Opened(socket, payload) sends Added(comm_id,
\* comm_name) to the shell-events listener, appends that socket to open_comms,
\* and sends comm_open {comm_id, target_name, data = payload} on IOPub exactly
\* when the socket's initiator is BackEnd; no other step adds a socket.
C26_OpenedNotifies ==
    [][/\ (Len(comm_shell') > Len(comm_shell) /\ Last(comm_shell').kind = "Added") =>
            \E s \in CommSockets :
                /\ comm_shell' = Append(comm_shell, Added(s.comm_id, s.comm_name))
                /\ open_comms' = Append(open_comms, s)
                /\ IF s.initiator = "BackEnd"
                   THEN \E val \in OpenValues :
                            iopub' = Append(iopub, CommOpen(s.comm_id, s.comm_name, val))
                   ELSE iopub' = iopub
       /\ Len(open_comms') > Len(open_comms) =>
            (Len(comm_shell') > Len(comm_shell) /\ Last(comm_shell').kind = "Added")
       /\ (Len(iopub') > Len(iopub) /\ Last(iopub').kind = "CommOpen") =>
            (Len(comm_shell') > Len(comm_shell) /\ Last(comm_shell').kind = "Added")]_vars

\* Both kinds of comm have been opened: the one started by the back end was
\* announced on IOPub, the one started by the front end was not.
C26_Witness ==
    /\ \E i \in 1..Len(open_comms) : open_comms[i].initiator = "BackEnd"
    /\ \E i \in 1..Len(open_comms) : open_comms[i].initiator = "FrontEnd"
    /\ \E i \in 1..Len(comm_shell) : comm_shell[i] = Added("c1", "variables")
    /\ \E i \in 1..Len(iopub) : iopub[i] = CommOpen("c2", "plot", "v1")
    /\ \A i \in 1..Len(iopub) : iopub[i].kind = "CommOpen" => iopub[i].comm_id = "c2"

\* C27: a step that processes Message(comm_id, msg) appends msg to the
\* incoming channel of the open comm with that id and to no other channel;
\* when no comm with that id is in open_comms the incoming channels stay as
\* they are.  Either way open_comms and pending_rpcs are unchanged and
\* nothing is sent to IOPub or to the shell-events listener.  Whatever the
\* step, a channel gets a message only while a comm that owns it is open.
C27_MessageOnlyToOpenComm ==
    /\ [][\A c \in CommIds, m \in FrontMsgs : Message(c, m) =>
        /\ IF \E i \in 1..Len(open_comms) : open_comms[i].comm_id = c
           THEN \E i \in 1..Len(open_comms) :
                    /\ open_comms[i].comm_id = c
                    /\ incoming' = [incoming EXCEPT ![open_comms[i].chan] = Append(@, m)]
           ELSE incoming' = incoming
        /\ open_comms' = open_comms
        /\ pending_rpcs' = pending_rpcs
        /\ iopub' = iopub
        /\ comm_shell' = comm_shell]_vars
    /\ [][\A ch \in Chans : incoming'[ch] # incoming[ch] =>
            /\ \E i \in 1..Len(open_comms) : open_comms[i].chan = ch
            /\ \E m \in FrontMsgs : incoming' = [incoming EXCEPT ![ch] = Append(@, m)]
            /\ open_comms' = open_comms
            /\ pending_rpcs' = pending_rpcs]_vars

\* Four steps were taken: c1 was opened, given one message and closed, and
\* one more message came for a comm that was not open (before c1 was opened
\* or after it was closed); that message reached no channel.
C27_Witness ==
    /\ comm_steps = 4
    /\ comm_shell = <<Added("c1", "variables"), Removed("c1")>>
    /\ open_comms = <<>>
    /\ incoming = [ch \in Chans |-> IF ch = 1 THEN <<Rpc("r1", "v1")>> ELSE <<>>]
    /\ \A ch \in Chans : outgoing[ch] = <<>>
    /\ \A c \in CommIds : n_closed[c] = (IF c = "c1" THEN 1 ELSE 0)
    /\ pending_log = <<>>
    /\ iopub = <<>>

\* C28: a step that processes Closed(comm_id) while an entry with that id is
\* in open_comms removes one such entry and sends exactly one Removed(comm_id)
\* to the shell-events listener; for an id with no entry it leaves open_comms
\* as it is and sends nothing.  So for every id the Added events minus the
\* Removed events the listener has seen equal the entries the manager holds.
C28_ClosedRemovesAndNotifies ==
    /\ [](\A c \in CommIds : NOpened(c) - NClosedOpen(c) = Entries(c))
    /\ [][\A c \in CommIds : Closed(c) =>
            IF \E i \in 1..Len(open_comms) : open_comms[i].comm_id = c
            THEN /\ \E i \in 1..Len(open_comms) :
                        /\ open_comms[i].comm_id = c
                        /\ open_comms' = RemoveAt(open_comms, i)
                 /\ comm_shell' = Append(comm_shell, Removed(c))
            ELSE /\ open_comms' = open_comms
                 /\ comm_shell' = comm_shell]_vars

\* c1 was opened once and Closed(c1) was processed twice: the first found
\* the comm and sent the one Removed, the second found nothing.
C28_Witness ==
    /\ n_closed["c1"] = 2
    /\ NOpened("c1") = 1
    /\ NClosedOpen("c1") = 1
    /\ Entries("c1") = 0

\* ------------------------------------------------------------------------
\* Properties of Kernel::connect, the Shell thread and Control
\* ------------------------------------------------------------------------
\* C21: once Control listens, every request that has arrived on the Control
\* socket gets handled, whatever the Shell thread does, also when it stays
\* in a handler for ever.
C21_ControlServedWhileShellBlocked ==
    \A n \in 1..MaxControlRequests :
        (connect_pc = "listening" /\ control_arrived >= n) ~> (Len(control_handled) >= n)

\* Control handled a request while the Shell thread was in a handler, and
\* the Shell thread is still there.
C21_Witness ==
    /\ shell_worker = "handler"
    /\ \E i \in 1..Len(control_handled) : control_handled[i].shell_worker = "handler"

\* The sockets connect has to create.
AllSockets == {SocketNames[i] : i \in 1..Len(SocketNames)}

\* C29: with a conn_init_tx given, connect sends the connection-ready signal
\* exactly once: never more than once, only when the Shell, IOPub,
\* Heartbeat, StdIn and Control sockets and the notifier pair all exist, and
\* it has been sent by the time Control listens.  A socket creation that
\* fails makes connect return Err, for good, with no signal sent.
C29_ConnInitOnceAfterSockets ==
    /\ [](Len(conn_init_rx) <= 1)
    /\ [](conn_init_rx # <<>> => sockets = AllSockets)
    /\ [](connect_pc \in {"signal", "control_thread", "listening"} => sockets = AllSockets)
    /\ []((connect_pc \in {"control_thread", "listening"} /\ conn_init_tx = "Some")
            => conn_init_rx = <<TRUE>>)
    /\ [](connect_pc = "err" => (conn_init_rx = <<>> /\ sockets # AllSockets))
    /\ [][(connect_pc \in AllSockets /\ connect_pc' # connect_pc /\ connect_pc \notin sockets')
            => (connect_pc' = "err" /\ conn_init_rx' = <<>>)]_vars
    /\ [][connect_pc = "err" => (connect_pc' = "err" /\ conn_init_rx' = <<>>)]_vars

\* connect went through: the signal was received once and Control has
\* handled a request.
C29_Witness ==
    /\ connect_pc = "listening"
    /\ conn_init_rx = <<TRUE>>
    /\ control_handled # <<>>

C31_OnlyReplyOrInterruptEndsWait ==
    [][(/\ stdin_pc = "waiting"
        /\ stdin_pc' # "waiting"
        /\ interrupt_rx' = interrupt_rx
        /\ inbound_rx # <<>>
        /\ ~Head(inbound_rx).stale)
       => (/\ Head(inbound_rx).kind = "input_reply"
           /\ inbound_rx' = Tail(inbound_rx))]_vars

\* C32: execution_count is 0 before any request; handling an execute_request
\* adds exactly 1 to it and the reply sent carries the new value, so the
\* first execute reply carries 1; no other step changes it; the execute
\* replies sent carry strictly increasing counts.
C32_ExecutionCountSteps ==
    /\ [](shell_reqs = <<>> => execution_count = 0)
    /\ [](\A i, j \in 1..Len(shell_out) :
            (i < j /\ shell_out[i].execution_count > 0 /\ shell_out[j].execution_count > 0)
                => shell_out[i].execution_count < shell_out[j].execution_count)
    /\ [][IF shell_pc = "dispatch" /\ shell_pc' # "dispatch" /\ shell_msg.type = "ExecuteRequest"
          THEN /\ execution_count' = execution_count + 1
               /\ Len(shell_out') > Len(shell_out)
                    => Last(shell_out').execution_count = execution_count'
          ELSE execution_count' = execution_count]_vars

\* Two execute requests were answered, with counts 1 and 2, and a request of
\* another type was answered between them.
C32_Witness ==
    \E i, j, k \in 1..Len(shell_out) :
        /\ i < j /\ j < k
        /\ shell_out[i].execution_count = 1
        /\ shell_out[j].execution_count = 0
        /\ shell_out[k].execution_count = 2
        /\ execution_count = 2

\* ------------------------------------------------------------------------
\* Properties of the LSP coordinator task
\* ------------------------------------------------------------------------
\* C33: when the coordinator serves an exclusive HandlerSync it signals the
\* queued handlers front first and the queue is empty when it signals the
\* exclusive handler, so every handler registered before an exclusive one
\* is signalled before it; an exclusive handler is never on the queue; and
\* the signals are made in the order of registration, each handler at most
\* once.
C33_ExclusiveFlushesQueue ==
    /\ [](\A i \in DOMAIN coord_pending : ~coord_pending[i].exclusive)
    /\ [](\A i, j \in DOMAIN signalled : i < j => signalled[i].id < signalled[j].id)
    /\ [](\A i \in DOMAIN signalled :
            signalled[i].exclusive =>
                \A k \in 1..(signalled[i].id - 1) :
                    \E j \in 1..(i - 1) : signalled[j].id = k)
    /\ [][/\ (coord_pc = "flush" /\ signalled' # signalled /\ coord_pending # <<>>)
             => (/\ signalled' = Signal(Head(coord_pending), "flush")
                 /\ coord_pending' = Tail(coord_pending))
          /\ (signalled' # signalled /\ signalled'[Len(signalled')].exclusive)
             => (coord_pending = <<>> /\ coord_pending' = <<>>)]_vars

\* Two queued handlers were flushed for the exclusive handler that came third.
C33_Witness ==
    signalled = <<[id |-> 1, exclusive |-> FALSE, by |-> "flush"],
                  [id |-> 2, exclusive |-> FALSE, by |-> "flush"],
                  [id |-> 3, exclusive |-> TRUE, by |-> "exclusive"]>>

C35_OneNotificationPerMessage ==
    /\ notif_socket + Len(stdin_socket_tx) <= n_outbound
    /\ ~(/\ fwd_pc = "loop"
         /\ fwd_n > 0
         /\ IsReadable(outbound_notif_poll_item)
         /\ stdin_outbound_rx = <<>>
         /\ stdin_socket_rx # <<>>)

\* C36: an interrupt signalled before StdIn took the input request does not
\* end the wait for that request's reply: in every step in which the wait
\* ends by the receipt of an interrupt, no interrupt signalled before the
\* request was taken is on the interrupt channel (the channel is first in,
\* first out, so such an interrupt would be the one received).
C36_EarlyInterruptNeverCancels ==
    [][(stdin_pc = "waiting" /\ stdin_pc' = "idle" /\ interrupt_rx' = interrupt_rx - 1)
       => early_interrupts = 0]_vars

\* C37: a reply to front-end request r is emitted only with the comm_id of
\* the comm that r was addressed to: for every CommMsgReply sent to IOPub,
\* a request with the id of its parent header was delivered on the
\* incoming channel of the comm whose comm_id the payload carries.
C37_ReplyFromAddressedComm ==
    \A i \in DOMAIN iopub :
        iopub[i].kind = "CommMsgReply" =>
            \E s \in CommSockets :
                /\ s.comm_id = iopub[i].payload.comm_id
                /\ \E k \in DOMAIN incoming[s.chan] :
                      /\ incoming[s.chan][k].kind = "Rpc"
                      /\ incoming[s.chan][k].id = iopub[i].parent.msg_id

\* ------------------------------------------------------------------------
\* Properties of the reticulate comm service
\* ------------------------------------------------------------------------
\* C38: the reticulate service puts at most one Close on its outgoing
\* channel over its lifetime.
C38_AtMostOneClose ==
    Cardinality({i \in DOMAIN ret_outgoing_tx : ret_outgoing_tx[i].kind = "Close"}) <= 1

\* ------------------------------------------------------------------------
\* Properties of the front-end comm handler
\* ------------------------------------------------------------------------
\* C39: for every Rpc(id, request) the handler receives on its incoming
\* channel it sends exactly one Rpc with the same id on its outgoing
\* channel, whatever the payload and the outcome of the `exists` check.
C39_EveryRpcAnswered ==
    [][(/\ front_pc = "select"
        /\ front_incoming_rx # <<>>
        /\ front_incoming_rx' = Tail(front_incoming_rx)
        /\ Head(front_incoming_rx).kind = "Rpc")
       => (/\ Len(front_outgoing_tx') = Len(front_outgoing_tx) + 1
           /\ front_outgoing_tx'[Len(front_outgoing_tx')].kind = "Rpc"
           /\ front_outgoing_tx'[Len(front_outgoing_tx')].id = Head(front_incoming_rx).id)]_vars

\* ------------------------------------------------------------------------
\* Properties of RObject
\* ------------------------------------------------------------------------
\* C40: every live RObject that wraps a non-nil SEXP is on the protect
\* stack, once per live RObject wrapping that SEXP, and the depth of the
\* stack is the number of live non-nil RObjects.
C40_LiveObjectsProtected ==
    /\ \A sexp \in SEXPs \ {R_NilValue} :
          Cardinality({i \in DOMAIN protect_stack : protect_stack[i] = sexp})
              = Cardinality({obj \in robjects : obj.data = sexp})
    /\ Len(protect_stack) = Cardinality({obj \in robjects : obj.data # R_NilValue})

====
